---- MODULE Spec2Model ----
(***************************************************************************)
(* Model of the disk-image assembly code of scripts/scons/disk.py:         *)
(* class DiskImage (create, create_partition_table, format_partition,      *)
(* mount, _wait_for_partition, unmount) and install_grub.                  *)
(*                                                                         *)
(* Every external command (parted, sgdisk, mkfs, losetup, hdiutil, mount,  *)
(* umount, grub-install, ...) is one step of the operation that runs it.   *)
(* A command either exits 0 and has its effect, or exits non-zero and has  *)
(* none; the `sh` module turns a non-zero exit into an exception           *)
(* (ErrorReturnCode).  A command whose precondition does not hold in the   *)
(* modelled host state (umount of a directory with nothing mounted, detach *)
(* of a free device, ...) can only fail; every other command may still     *)
(* fail for reasons outside the model.                                     *)
(***************************************************************************)
EXTENDS Integers, Sequences, FiniteSets, TLC

\* ------------------------------------------------------------------ bounds
NumDevices == 2          \* loop/disk devices the host offers

MaxReserved == 1         \* largest reserved_sectors argument a caller passes

MaxBytes    == 24        \* largest small size_bytes given to __init__
MaxSector   == 6         \* largest small sector_size given to __init__

MaxLen      == 4         \* longest string given to ParseSize

\* ------------------------------------------------------- program constants
SECTOR_SIZE     == 512   \* disk.py:20 and the default of __init__
MaxRetries      == 10    \* default max_retries of _wait_for_partition
PartitionOffset == 2048  \* default offset of create_partition_table
FormatOffset    == 0     \* default offset of format_partition
Base            == 1024  \* utility.py: the multiplier of the suffix k

Builds    == {1, 2}                 \* DiskImage objects, one backing file each
Devices   == 1..NumDevices          \* /dev/loopN, /dev/diskN
NoDevice  == 0                      \* self._device = None, marker file absent
NoDir     == "none"                 \* self._mount_dir = None, argument None
MountDirs == {"mntA", "mntB"}       \* mount directories callers pass
Platforms == {"linux", "darwin"}    \* sys.platform

VARIABLES
    platform,        \* sys.platform of the host
    attached,        \* device -> build whose image backs it (0: free)
    mounts,          \* mount dir -> stack of devices whose partition 1 is mounted there
    marker,          \* mount dir -> contents of '<mount_dir>.device' (NoDevice: no file)
    fileLen,         \* build -> length in bytes of the file at image_path (0: no file)
    imgTable,        \* build -> partition table on the image
    imgFs,           \* build -> filesystem written into the image
    size_bytes,      \* build -> DiskImage.size_bytes
    self_mount_dir,  \* build -> DiskImage._mount_dir
    self_device,     \* build -> DiskImage._device
    pc,              \* build -> position of the caller inside the running operation
    op,              \* build -> the operation running, or the last one that ran
    args,            \* build -> arguments and locals of that operation
    result,          \* build -> outcome of the last finished operation
    probes,          \* build -> probes made by the current _wait_for_partition
    log,             \* build -> external commands run by the current call, in order
    stage,           \* build -> pipeline stage last completed successfully
    calc,            \* the last call of a pure function: its argument and outcome
    iso,             \* build -> staging tree and products of the ISO target
    libs,            \* copy_c_library: the toolchain sysroot and the image's /lib
    toolchain,       \* ToolchainBuilder: the prefix, its sources and artifacts
    deps,            \* install_dependencies: its arguments and the commands' exits
    fmt              \* format_files: the file list and the formatter's exits

vars == <<platform, attached, mounts, marker, fileLen, imgTable, imgFs,
          size_bytes, self_mount_dir, self_device, pc, op, args, result,
          probes, log, stage, calc, iso, libs, toolchain, deps, fmt>>

scriptVars == <<libs, toolchain, deps, fmt>>

hostVars  == <<attached, mounts, marker>>
imageVars == <<fileLen, imgTable, imgFs>>
selfVars  == <<self_mount_dir, self_device>>

\* ----------------------------------------------------------------- inputs
\* size_bytes given to __init__: whole numbers of sectors and one that is not
ImageSizes == {1048576, 1048577, 1049088, 2097152}
Offsets    == {FormatOffset, PartitionOffset}   \* offset arguments, in sectors

\* A filesystem name is modelled by its first three characters and the rest,
\* which is how the code reads it: startswith('fat') and filesystem[3:].
FsNames == {<<"fat", "12">>, <<"fat", "16">>, <<"fat", "32">>, <<"ext", "2">>,
            <<"fat", "64">>, <<"ntf", "s">>}
NoFs    == <<"", "">>

\* FS_CONFIG: the supported names and their per-filesystem settings.
FS_CONFIG ==
    [fs \in {<<"fat", "12">>, <<"fat", "16">>, <<"fat", "32">>, <<"ext", "2">>} |->
        CASE fs = <<"fat", "12">> -> [parted_type |-> "fat12", mkfs_cmd |-> "mkfs.fat",
                                      fat_size |-> "12", reserved_extra |-> 1]
          [] fs = <<"fat", "16">> -> [parted_type |-> "fat16", mkfs_cmd |-> "mkfs.fat",
                                      fat_size |-> "16", reserved_extra |-> 1]
          [] fs = <<"fat", "32">> -> [parted_type |-> "fat32", mkfs_cmd |-> "mkfs.fat",
                                      fat_size |-> "32", reserved_extra |-> 2]
          [] OTHER                -> [parted_type |-> "ext2", mkfs_cmd |-> "mkfs.ext2",
                                      fat_size |-> "", reserved_extra |-> 0]]

\* filesystem.startswith('fat')
StartsWithFat(fs) == fs[1] = "fat"

\* size_sectors rounded down instead of up.
SizeSectors_floor(bytes, sector_size) == bytes \div sector_size

\* DiskImage.__init__: size_sectors = (size_bytes + sector_size - 1) // sector_size
SizeSectors(bytes, sector_size) == (bytes + sector_size - 1) \div sector_size

size_sectors(b) == SizeSectors(size_bytes[b], SECTOR_SIZE)

\* Sectors of the file at image_path as the partitioning tools see it.
TotalSectors(b) == fileLen[b] \div SECTOR_SIZE

\* ----------------------------------------------------------- image contents
NoTable == [kind |-> "none", start |-> -1, last |-> -1, boot |-> FALSE]
NoFsOnImage == [kind |-> NoFs, start |-> -1, fat_size |-> "", reserved |-> 0]

HasPartition(t) == t.kind # "none" /\ t.start >= 0

\* ------------------------------------------------------------- host state
FreeDevices == {d \in Devices : attached[d] = 0}

\* `losetup -f` and `hdiutil attach` take the lowest free device.
FirstFree == CHOOSE d \in FreeDevices : \A e \in FreeDevices : d <= e

IsMounted(d) == \E m \in MountDirs : \E k \in 1..Len(mounts[m]) : mounts[m][k] = d

\* The node of partition 1 (<dev>p1, <dev>s1) exists: the device is attached
\* to an image whose partition table holds a partition.
PartitionNode(d) ==
    /\ d \in Devices
    /\ attached[d] # 0
    /\ HasPartition(imgTable[attached[d]])

\* Partition 1 of the device holds a filesystem the kernel can mount: one was
\* written exactly where the partition starts.
Mountable(d) ==
    /\ PartitionNode(d)
    /\ imgFs[attached[d]].kind # NoFs
    /\ imgFs[attached[d]].start = imgTable[attached[d]].start * SECTOR_SIZE

\* No pure function has been called.
NoCalc == [fn |-> "none", arg |-> <<>>, out |-> -1, raised |-> "none"]

\* No staging tree is being packaged.
NoIso == [grub_cfg |-> FALSE, boot_image |-> FALSE, warned |-> FALSE,
          image |-> "none"]

\* The scripts outside disk.py have not run.
NotCalled == [called |-> FALSE]

\* --------------------------------------------------- calls and their results
NoArgs == [dir |-> NoDir, device |-> NoDevice, offset |-> 0, fs |-> NoFs,
           reserved |-> 0, label_ok |-> TRUE, pending |-> "ok"]

Errors == {"ErrorReturnCode", "RuntimeError", "ValueError", "FileNotFoundError",
           "TimeoutExpired", "CalledProcessError", "KeyboardInterrupt",
           "URLError", "TarError"}

\* The pipeline position an operation completes.
StageOf(o) ==
    CASE o = "create"                 -> 1
      [] o = "create_partition_table" -> 2
      [] o = "format_partition"       -> 3
      [] o = "mount"                  -> 4
      [] o = "install_grub"           -> 5
      [] o = "unmount"                -> 6
      [] OTHER                        -> 0

Idle(b) == pc[b] = "idle"

\* The caller enters operation o with arguments a at position p.
Enter(b, o, a, p) ==
    /\ Idle(b)
    /\ op' = [op EXCEPT ![b] = o]
    /\ args' = [args EXCEPT ![b] = a]
    /\ pc' = [pc EXCEPT ![b] = p]
    /\ result' = [result EXCEPT ![b] = "running"]
    /\ probes' = [probes EXCEPT ![b] = 0]
    /\ log' = [log EXCEPT ![b] = <<>>]
    /\ UNCHANGED stage

\* The operation returns normally ("ok") or raises r.
Return(b, r) ==
    /\ pc' = [pc EXCEPT ![b] = "idle"]
    /\ result' = [result EXCEPT ![b] = r]
    /\ stage' = IF r = "ok" THEN [stage EXCEPT ![b] = StageOf(op[b])] ELSE stage

Goto(b, p) ==
    /\ pc' = [pc EXCEPT ![b] = p]
    /\ UNCHANGED <<result, stage>>

\* One external command of the current call, with its exit status.
Ran(b, cmd, ok, dev, dir) ==
    log' = [log EXCEPT ![b] = Append(@, [cmd |-> cmd, ok |-> ok, dev |-> dev, dir |-> dir])]

\* A command that exits non-zero: sh raises ErrorReturnCode, nothing changes.
CommandFails(b, cmd, dev, dir) ==
    /\ Ran(b, cmd, FALSE, dev, dir)
    /\ Return(b, "ErrorReturnCode")

\* ------------------------------------------------------------------ mount
\* DiskImage.mount, lines 153-154: records the directory and creates it.
mount(b, d) ==
    /\ Enter(b, "mount", [NoArgs EXCEPT !.dir = d], "mount_attach")
    /\ self_mount_dir' = [self_mount_dir EXCEPT ![b] = d]
    /\ UNCHANGED <<platform, calc, iso, scriptVars, size_bytes, hostVars, imageVars, self_device>>

\* Lines 171 (sudo losetup -fP --show) and 158 (_attach_darwin_nomount: hdiutil
\* attach -nomount, then the parse of its output for a /dev/disk line).
mount_attach(b) ==
    /\ pc[b] = "mount_attach"
    /\ UNCHANGED <<platform, calc, iso, scriptVars, size_bytes, imageVars, mounts, marker, self_mount_dir,
                   op, args, probes>>
    /\ \/ /\ FreeDevices # {} /\ fileLen[b] > 0
          /\ attached' = [attached EXCEPT ![FirstFree] = b]
          /\ self_device' = [self_device EXCEPT ![b] = FirstFree]
          /\ Ran(b, "attach", TRUE, FirstFree, NoDir)
          /\ Goto(b, IF platform = "darwin" THEN "mount_wait" ELSE "mount_partprobe")
       \/ /\ platform = "darwin" /\ FreeDevices # {} /\ fileLen[b] > 0
          \* the image is attached but no output line starts with /dev/disk
          /\ attached' = [attached EXCEPT ![FirstFree] = b]
          /\ Ran(b, "attach", TRUE, FirstFree, NoDir)
          /\ Return(b, "RuntimeError")
          /\ UNCHANGED self_device
       \/ /\ CommandFails(b, "attach", NoDevice, NoDir)
          /\ UNCHANGED <<attached, self_device>>

\* Line 173: sudo partprobe <device> (Linux only).
mount_partprobe(b) ==
    /\ pc[b] = "mount_partprobe"
    /\ UNCHANGED <<platform, calc, iso, scriptVars, size_bytes, imageVars, hostVars, selfVars, op, args, probes>>
    /\ \/ /\ attached[self_device[b]] # 0
          /\ Ran(b, "partprobe", TRUE, self_device[b], NoDir)
          /\ Goto(b, "mount_wait")
       \/ CommandFails(b, "partprobe", self_device[b], NoDir)

\* _wait_for_partition, lines 189-194: one pass of the loop. `ls -la <partition>`
\* exits 0 (return), exits non-zero (sleep, next pass), or outlives timeout=1
\* (subprocess.run raises TimeoutExpired, which nothing catches).
wait_for_partition_probe(b) ==
    /\ pc[b] = "mount_wait"
    /\ probes[b] < MaxRetries
    /\ probes' = [probes EXCEPT ![b] = @ + 1]
    /\ UNCHANGED <<platform, calc, iso, scriptVars, size_bytes, imageVars, hostVars, selfVars, op, args, log>>
    /\ \/ /\ PartitionNode(self_device[b])
          /\ Goto(b, "mount_marker")
       \/ Goto(b, "mount_wait")
       \/ Return(b, "TimeoutExpired")

\* _wait_for_partition, lines 196-198: the loop ran out; `losetup -l` is run
\* with check=False on Linux, then RuntimeError is raised.
wait_for_partition_exhausted(b) ==
    /\ pc[b] = "mount_wait"
    /\ probes[b] >= MaxRetries
    /\ UNCHANGED <<platform, calc, iso, scriptVars, size_bytes, imageVars, hostVars, selfVars, op, args, probes>>
    /\ \E listed \in BOOLEAN :
          /\ IF platform # "darwin"
                THEN Ran(b, "losetup_l", listed, NoDevice, NoDir)
                ELSE listed /\ UNCHANGED log
          /\ Return(b, "RuntimeError")

\* Lines 180-182 and 162-164: write the device path to '<mount_dir>.device'.
mount_write_marker(b) ==
    /\ pc[b] = "mount_marker"
    /\ marker' = [marker EXCEPT ![args[b].dir] = self_device[b]]
    /\ Goto(b, "mount_mount")
    /\ UNCHANGED <<platform, calc, iso, scriptVars, size_bytes, imageVars, attached, mounts, selfVars,
                   op, args, probes, log>>

\* A mount command that is run again when it fails.
mount_mount_retried(b) ==
    /\ pc[b] = "mount_mount"
    /\ UNCHANGED <<platform, calc, iso, scriptVars, size_bytes, imageVars, attached, marker, selfVars,
                   op, args, probes>>
    /\ \/ /\ Mountable(self_device[b])
          /\ mounts' = [mounts EXCEPT ![args[b].dir] = Append(@, self_device[b])]
          /\ Ran(b, "mount", TRUE, self_device[b], args[b].dir)
          /\ Return(b, "ok")
       \/ /\ Len(log[b]) < 6
          /\ Ran(b, "mount", FALSE, self_device[b], args[b].dir)
          /\ Goto(b, "mount_mount")
          /\ UNCHANGED mounts

\* Lines 185 and 167: sudo mount <partition> <mount_dir>.
mount_mount(b) ==
    /\ pc[b] = "mount_mount"
    /\ UNCHANGED <<platform, calc, iso, scriptVars, size_bytes, imageVars, attached, marker, selfVars,
                   op, args, probes>>
    /\ \/ /\ Mountable(self_device[b])
          /\ mounts' = [mounts EXCEPT ![args[b].dir] = Append(@, self_device[b])]
          /\ Ran(b, "mount", TRUE, self_device[b], args[b].dir)
          /\ Return(b, "ok")
       \/ /\ CommandFails(b, "mount", self_device[b], args[b].dir)
          /\ UNCHANGED mounts

\* ---------------------------------------------------------------- unmount
\* DiskImage.unmount, lines 228-232: the directory defaults to the recorded
\* one; with none the call returns at once, otherwise it sleeps 2 seconds.
unmount(b, a) ==
    /\ Idle(b)
    /\ UNCHANGED <<platform, calc, iso, scriptVars, size_bytes, imageVars, hostVars, selfVars>>
    /\ LET mount_dir == IF a # NoDir THEN a ELSE self_mount_dir[b] IN
       IF mount_dir = NoDir
          THEN /\ op' = [op EXCEPT ![b] = "unmount"]
               /\ args' = [args EXCEPT ![b] = NoArgs]
               /\ result' = [result EXCEPT ![b] = "ok"]
               /\ log' = [log EXCEPT ![b] = <<>>]
               /\ probes' = [probes EXCEPT ![b] = 0]
               /\ UNCHANGED <<pc, stage>>
          ELSE Enter(b, "unmount", [NoArgs EXCEPT !.dir = mount_dir], "unmount_umount")

\* Line 236: sudo umount <mount_dir>; the topmost mount of the directory goes.
unmount_umount(b) ==
    /\ pc[b] = "unmount_umount"
    /\ UNCHANGED <<platform, calc, iso, scriptVars, size_bytes, imageVars, attached, marker, selfVars,
                   op, args, probes>>
    /\ LET d == args[b].dir IN
       \/ /\ mounts[d] # <<>>
          /\ mounts' = [mounts EXCEPT ![d] = SubSeq(@, 1, Len(@) - 1)]
          /\ Ran(b, "umount", TRUE, mounts[d][Len(mounts[d])], d)
          /\ Goto(b, "unmount_read")
       \/ /\ CommandFails(b, "umount", NoDevice, d)
          /\ UNCHANGED mounts

\* Lines 238-239: read the device path back from the marker file.
unmount_read(b) ==
    /\ pc[b] = "unmount_read"
    /\ UNCHANGED <<platform, calc, iso, scriptVars, size_bytes, imageVars, hostVars, selfVars, op, probes, log>>
    /\ IF marker[args[b].dir] # NoDevice
          THEN /\ args' = [args EXCEPT ![b].device = marker[args[b].dir]]
               /\ Goto(b, "unmount_detach")
          ELSE /\ Return(b, "FileNotFoundError")
               /\ UNCHANGED args

\* An unmount that forgets the detach and goes on to delete the marker file.
unmount_detach_skipped(b) ==
    /\ pc[b] = "unmount_detach"
    /\ UNCHANGED <<platform, calc, iso, scriptVars, size_bytes, imageVars, hostVars, selfVars,
                   op, args, probes, log>>
    /\ Goto(b, "unmount_remove")

\* Lines 241-244: hdiutil detach <device> / sudo losetup -d <device>. A device
\* with a mounted partition is busy and stays attached.
unmount_detach(b) ==
    /\ pc[b] = "unmount_detach"
    /\ UNCHANGED <<platform, calc, iso, scriptVars, size_bytes, imageVars, mounts, marker, selfVars,
                   op, args, probes>>
    /\ LET device == args[b].device IN
       \/ /\ attached[device] # 0 /\ ~IsMounted(device)
          /\ attached' = [attached EXCEPT ![device] = 0]
          /\ Ran(b, "detach", TRUE, device, NoDir)
          /\ Goto(b, "unmount_remove")
       \/ /\ CommandFails(b, "detach", device, NoDir)
          /\ UNCHANGED attached

\* Line 245: os.remove(device_file).
unmount_remove(b) ==
    /\ pc[b] = "unmount_remove"
    /\ UNCHANGED <<platform, calc, iso, scriptVars, size_bytes, imageVars, attached, mounts, selfVars,
                   op, args, probes, log>>
    /\ IF marker[args[b].dir] # NoDevice
          THEN /\ marker' = [marker EXCEPT ![args[b].dir] = NoDevice]
               /\ Return(b, "ok")
          ELSE /\ Return(b, "FileNotFoundError")
               /\ UNCHANGED marker

\* ------------------------------------------------------------ install_grub
\* Lines 300-305: without the marker file RuntimeError is raised; otherwise the
\* device path is read from it.
install_grub(b, d) ==
    /\ Idle(b)
    /\ UNCHANGED <<platform, calc, iso, scriptVars, size_bytes, imageVars, hostVars, selfVars>>
    /\ IF marker[d] = NoDevice
          THEN /\ op' = [op EXCEPT ![b] = "install_grub"]
               /\ args' = [args EXCEPT ![b] = [NoArgs EXCEPT !.dir = d]]
               /\ result' = [result EXCEPT ![b] = "RuntimeError"]
               /\ log' = [log EXCEPT ![b] = <<>>]
               /\ probes' = [probes EXCEPT ![b] = 0]
               /\ UNCHANGED <<pc, stage>>
          ELSE Enter(b, "install_grub",
                     [NoArgs EXCEPT !.dir = d, !.device = marker[d]], "grub_mkdir")

\* Line 308: sudo mkdir -p <mount_dir>/boot.
install_grub_mkdir(b) ==
    /\ pc[b] = "grub_mkdir"
    /\ UNCHANGED <<platform, calc, iso, scriptVars, size_bytes, imageVars, hostVars, selfVars, op, args, probes>>
    /\ \/ /\ Ran(b, "mkdir", TRUE, NoDevice, args[b].dir)
          /\ Goto(b, "grub_install")
       \/ CommandFails(b, "mkdir", NoDevice, args[b].dir)

\* Lines 311-312: sudo grub-install --target=i386-pc --boot-directory=<bootdir>
\* --recheck <device>.
install_grub_run(b) ==
    /\ pc[b] = "grub_install"
    /\ UNCHANGED <<platform, calc, iso, scriptVars, size_bytes, imageVars, hostVars, selfVars, op, args, probes>>
    /\ \/ /\ attached[args[b].device] # 0
          /\ Ran(b, "grub-install", TRUE, args[b].device, args[b].dir)
          /\ Return(b, "ok")
       \/ CommandFails(b, "grub-install", args[b].device, args[b].dir)

\* ----------------------------------------------------------------- create
\* create writing size_bytes bytes instead of whole sectors.
create_unrounded(b) ==
    /\ Idle(b)
    /\ fileLen' = [fileLen EXCEPT ![b] = size_bytes[b]]
    /\ imgTable' = [imgTable EXCEPT ![b] = NoTable]
    /\ imgFs' = [imgFs EXCEPT ![b] = NoFsOnImage]
    /\ op' = [op EXCEPT ![b] = "create"]
    /\ args' = [args EXCEPT ![b] = NoArgs]
    /\ result' = [result EXCEPT ![b] = "ok"]
    /\ stage' = [stage EXCEPT ![b] = StageOf("create")]
    /\ log' = [log EXCEPT ![b] = <<>>]
    /\ probes' = [probes EXCEPT ![b] = 0]
    /\ UNCHANGED <<platform, calc, iso, scriptVars, size_bytes, hostVars, selfVars, pc>>

\* DiskImage.create, lines 80-81: the file is (re)written as
\* size_sectors * sector_size zero bytes; no external command runs.
create(b) ==
    /\ Idle(b)
    /\ fileLen' = [fileLen EXCEPT ![b] = size_sectors(b) * SECTOR_SIZE]
    /\ imgTable' = [imgTable EXCEPT ![b] = NoTable]
    /\ imgFs' = [imgFs EXCEPT ![b] = NoFsOnImage]
    /\ op' = [op EXCEPT ![b] = "create"]
    /\ args' = [args EXCEPT ![b] = NoArgs]
    /\ result' = [result EXCEPT ![b] = "ok"]
    /\ stage' = [stage EXCEPT ![b] = StageOf("create")]
    /\ log' = [log EXCEPT ![b] = <<>>]
    /\ probes' = [probes EXCEPT ![b] = 0]
    /\ UNCHANGED <<platform, calc, iso, scriptVars, size_bytes, hostVars, selfVars, pc>>

\* --------------------------------------------------- create_partition_table
\* The call raises without entering: get_fs_config (line 90) for a name that is
\* no key of FS_CONFIG, line 94 for a non-FAT name on macOS.
Raises(b, o, a, r) ==
    /\ Idle(b)
    /\ op' = [op EXCEPT ![b] = o]
    /\ args' = [args EXCEPT ![b] = a]
    /\ result' = [result EXCEPT ![b] = r]
    /\ log' = [log EXCEPT ![b] = <<>>]
    /\ probes' = [probes EXCEPT ![b] = 0]
    /\ UNCHANGED <<pc, stage>>

\* Lines 90-94: the checks made before any tool runs.
create_partition_table(b, offset, filesystem) ==
    /\ UNCHANGED <<platform, calc, iso, scriptVars, size_bytes, hostVars, imageVars, selfVars>>
    /\ LET a == [NoArgs EXCEPT !.offset = offset, !.fs = filesystem] IN
       IF filesystem \notin DOMAIN FS_CONFIG
          THEN Raises(b, "create_partition_table", a, "ValueError")
       ELSE IF platform = "darwin"
          THEN IF ~StartsWithFat(filesystem)
                  THEN Raises(b, "create_partition_table", a, "RuntimeError")
                  ELSE Enter(b, "create_partition_table", a, "sgdisk_zap")
          ELSE Enter(b, "create_partition_table", a, "parted_mklabel")

\* A partitioning command on the image file: it needs the file, and on success
\* leaves the table t.
PartitionTool(b, here, cmd, can, t, next) ==
    /\ pc[b] = here
    /\ UNCHANGED <<platform, calc, iso, scriptVars, size_bytes, hostVars, selfVars, fileLen, imgFs,
                   op, args, probes>>
    /\ \/ /\ fileLen[b] > 0 /\ can
          /\ imgTable' = [imgTable EXCEPT ![b] = t]
          /\ Ran(b, cmd, TRUE, NoDevice, NoDir)
          /\ IF next = "idle" THEN Return(b, "ok") ELSE Goto(b, next)
       \/ /\ CommandFails(b, cmd, NoDevice, NoDir)
          /\ UNCHANGED imgTable

\* Line 102: parted -s <image> mklabel msdos: a new, empty MBR partition table.
parted_mklabel(b) ==
    PartitionTool(b, "parted_mklabel", "parted mklabel", TRUE,
                  [kind |-> "msdos", start |-> -1, last |-> -1, boot |-> FALSE],
                  "parted_mkpart")

\* Lines 103-104: parted -s <image> mkpart primary <type> <offset>s 100%: one
\* partition from the offset sector to the last sector of the image. Sector 0
\* holds the table itself and a start past the last sector does not exist.
parted_mkpart(b) ==
    PartitionTool(b, "parted_mkpart", "parted mkpart",
                  /\ imgTable[b].kind = "msdos"
                  /\ args[b].offset >= 1
                  /\ args[b].offset <= TotalSectors(b) - 1,
                  [imgTable[b] EXCEPT !.start = args[b].offset,
                                      !.last = TotalSectors(b) - 1],
                  "parted_boot")

\* Line 105: parted -s <image> set 1 boot on.
parted_boot(b) ==
    PartitionTool(b, "parted_boot", "parted set boot", HasPartition(imgTable[b]),
                  [imgTable[b] EXCEPT !.boot = TRUE], "idle")

\* Line 96: sgdisk --zap-all <image>: every partition structure is destroyed.
sgdisk_zap(b) ==
    PartitionTool(b, "sgdisk_zap", "sgdisk --zap-all", TRUE, NoTable, "sgdisk_o")

\* Line 97: sgdisk -o <image>: a new, empty GUID partition table.
sgdisk_o(b) ==
    PartitionTool(b, "sgdisk_o", "sgdisk -o", TRUE,
                  [kind |-> "gpt", start |-> -1, last |-> -1, boot |-> FALSE],
                  "sgdisk_n")

\* Lines 98-99: sgdisk -n 1:<offset>:0 -t 1:0700 -c 1:VALKYRIE <image>: one
\* basic-data partition from the offset (0: sgdisk's default start) to the last
\* usable sector (0: the default end). No bootable flag is set. A GPT keeps
\* 34 sectors at each end of the disk; sgdisk's default start is sector 2048.
sgdisk_n(b) ==
    LET start == IF args[b].offset = 0 THEN 2048 ELSE args[b].offset
        last  == TotalSectors(b) - 34
    IN  PartitionTool(b, "sgdisk_n", "sgdisk -n",
                      /\ imgTable[b].kind = "gpt"
                      /\ start >= 34
                      /\ start <= last,
                      [imgTable[b] EXCEPT !.start = start, !.last = last],
                      "idle")

\* --------------------------------------------------------- format_partition
Reserved  == 0..MaxReserved            \* reserved_sectors arguments
FatSizes  == {"12", "16", "32"}       \* FAT widths the formatters know

\* fat_reserved without the extra sector of fat32.
FatReserved_flat(filesystem, reserved_sectors) == reserved_sectors + 1

\* Lines 133-135: fat_reserved = reserved_sectors + 1, one more for fat32.
FatReserved(filesystem, reserved_sectors) ==
    IF filesystem = <<"fat", "32">> THEN reserved_sectors + 1 + 1
                                    ELSE reserved_sectors + 1

\* Lines 117-119, 132, 143, 148-149: the branch format_partition takes.
format_partition(b, filesystem, offset, reserved_sectors, label_ok) ==
    /\ UNCHANGED <<platform, calc, iso, scriptVars, size_bytes, hostVars, imageVars, selfVars>>
    /\ LET a == [NoArgs EXCEPT !.offset = offset, !.fs = filesystem,
                               !.reserved = reserved_sectors, !.label_ok = label_ok]
       IN
       IF platform = "darwin"
          THEN IF ~StartsWithFat(filesystem)
                  THEN Raises(b, "format_partition", a, "RuntimeError")
                  ELSE Enter(b, "format_partition", a, "format_attach")
       ELSE IF StartsWithFat(filesystem)
          THEN Enter(b, "format_partition", a, "mkfs_fat")
       ELSE IF filesystem = <<"ext", "2">>
          THEN Enter(b, "format_partition", a, "mkfs_ext2")
          ELSE Raises(b, "format_partition", a, "ValueError")

\* Lines 137-142: mkfs.fat <image> -F <filesystem[3:]> -n <label> -R <fat_reserved>
\* --offset=<offset>. The tool rejects a FAT width it does not know and a label
\* it cannot store.
mkfs_fat(b) ==
    /\ pc[b] = "mkfs_fat"
    /\ UNCHANGED <<platform, calc, iso, scriptVars, size_bytes, hostVars, selfVars, fileLen, imgTable,
                   op, args, probes>>
    /\ \/ /\ fileLen[b] > 0
          /\ args[b].fs[2] \in FatSizes
          /\ args[b].label_ok
          /\ args[b].offset < TotalSectors(b)
          /\ imgFs' = [imgFs EXCEPT ![b] =
                          [kind |-> args[b].fs,
                           start |-> args[b].offset * SECTOR_SIZE,
                           fat_size |-> args[b].fs[2],
                           reserved |-> FatReserved(args[b].fs, args[b].reserved)]]
          /\ Ran(b, "mkfs.fat", TRUE, NoDevice, NoDir)
          /\ Return(b, "ok")
       \/ /\ CommandFails(b, "mkfs.fat", NoDevice, NoDir)
          /\ UNCHANGED imgFs

\* mkfs.ext2 given the offset in sectors where it takes bytes.
mkfs_ext2_unscaled(b) ==
    /\ pc[b] = "mkfs_ext2"
    /\ UNCHANGED <<platform, calc, iso, scriptVars, size_bytes, hostVars, selfVars, fileLen,
                   imgTable, op, args, probes>>
    /\ \/ /\ fileLen[b] > 0
          /\ args[b].label_ok
          /\ args[b].offset < TotalSectors(b)
          /\ imgFs' = [imgFs EXCEPT ![b] =
                          [kind |-> args[b].fs,
                           start |-> args[b].offset,
                           fat_size |-> "",
                           reserved |-> 0]]
          /\ Ran(b, "mkfs.ext2", TRUE, NoDevice, NoDir)
          /\ Return(b, "ok")
       \/ /\ CommandFails(b, "mkfs.ext2", NoDevice, NoDir)
          /\ UNCHANGED imgFs

\* Lines 144-147: mkfs.ext2 <image> -L <label> -E offset=<offset * sector_size>.
mkfs_ext2(b) ==
    /\ pc[b] = "mkfs_ext2"
    /\ UNCHANGED <<platform, calc, iso, scriptVars, size_bytes, hostVars, selfVars, fileLen, imgTable,
                   op, args, probes>>
    /\ \/ /\ fileLen[b] > 0
          /\ args[b].label_ok
          /\ args[b].offset < TotalSectors(b)
          /\ imgFs' = [imgFs EXCEPT ![b] =
                          [kind |-> args[b].fs,
                           start |-> args[b].offset * SECTOR_SIZE,
                           fat_size |-> "",
                           reserved |-> 0]]
          /\ Ran(b, "mkfs.ext2", TRUE, NoDevice, NoDir)
          /\ Return(b, "ok")
       \/ /\ CommandFails(b, "mkfs.ext2", NoDevice, NoDir)
          /\ UNCHANGED imgFs

\* Line 122 (macOS): _attach_darwin_nomount, lines 202-216.
format_attach(b) ==
    /\ pc[b] = "format_attach"
    /\ UNCHANGED <<platform, calc, iso, scriptVars, size_bytes, imageVars, mounts, marker, selfVars, op, probes>>
    /\ \/ /\ FreeDevices # {} /\ fileLen[b] > 0
          /\ attached' = [attached EXCEPT ![FirstFree] = b]
          /\ args' = [args EXCEPT ![b].device = FirstFree]
          /\ Ran(b, "attach", TRUE, FirstFree, NoDir)
          /\ Goto(b, "format_newfs")
       \/ /\ FreeDevices # {} /\ fileLen[b] > 0
          /\ attached' = [attached EXCEPT ![FirstFree] = b]
          /\ Ran(b, "attach", TRUE, FirstFree, NoDir)
          /\ Return(b, "RuntimeError")
          /\ UNCHANGED args
       \/ /\ CommandFails(b, "attach", NoDevice, NoDir)
          /\ UNCHANGED <<attached, args>>

\* Lines 124-127 (macOS): sudo newfs_msdos -F <filesystem[3:]> -v <label>
\* <partition>; whatever its outcome, the finally clause runs next.
format_newfs(b) ==
    /\ pc[b] = "format_newfs"
    /\ UNCHANGED <<platform, calc, iso, scriptVars, size_bytes, hostVars, selfVars, fileLen, imgTable,
                   op, probes>>
    /\ Goto(b, "format_detach")
    /\ LET device == args[b].device IN
       \/ /\ PartitionNode(device)
          /\ args[b].fs[2] \in FatSizes
          /\ args[b].label_ok
          /\ imgFs' = [imgFs EXCEPT ![attached[device]] =
                          [kind |-> args[b].fs,
                           start |-> imgTable[attached[device]].start * SECTOR_SIZE,
                           fat_size |-> args[b].fs[2],
                           reserved |-> 0]]
          /\ Ran(b, "newfs_msdos", TRUE, device, NoDir)
          /\ UNCHANGED args
       \/ /\ Ran(b, "newfs_msdos", FALSE, device, NoDir)
          /\ args' = [args EXCEPT ![b].pending = "ErrorReturnCode"]
          /\ UNCHANGED imgFs

\* Lines 128-130 (macOS): finally: hdiutil detach <device>; then the pending
\* exception, if any, goes on.
format_detach(b) ==
    /\ pc[b] = "format_detach"
    /\ UNCHANGED <<platform, calc, iso, scriptVars, size_bytes, imageVars, mounts, marker, selfVars,
                   op, args, probes>>
    /\ LET device == args[b].device IN
       \/ /\ attached[device] # 0 /\ ~IsMounted(device)
          /\ attached' = [attached EXCEPT ![device] = 0]
          /\ Ran(b, "detach", TRUE, device, NoDir)
          /\ Return(b, args[b].pending)
       \/ /\ CommandFails(b, "detach", device, NoDir)
          /\ UNCHANGED attached

\* ------------------------------------------------------------ specification
TypeOK ==
    /\ platform \in Platforms
    /\ attached \in [Devices -> {0} \cup Builds]
    /\ \A m \in MountDirs : mounts[m] \in Seq(Devices)
    /\ marker \in [MountDirs -> {NoDevice} \cup Devices]
    /\ \A b \in Builds :
          /\ size_bytes[b] \in ImageSizes
          /\ fileLen[b] \in {0, size_sectors(b) * SECTOR_SIZE}
          /\ self_mount_dir[b] \in MountDirs \cup {NoDir}
          /\ self_device[b] \in Devices \cup {NoDevice}
          /\ probes[b] \in 0..MaxRetries
          /\ stage[b] \in 0..6
          /\ result[b] \in Errors \cup {"none", "running", "ok"}

\* What every initial state shares: no device attached, nothing mounted, and
\* every DiskImage as __init__ leaves it (lines 70-76).
InitCommon ==
    /\ platform \in Platforms
    /\ attached = [d \in Devices |-> 0]
    /\ mounts = [m \in MountDirs |-> <<>>]
    /\ marker = [m \in MountDirs |-> NoDevice]
    /\ self_mount_dir = [b \in Builds |-> NoDir]
    /\ self_device = [b \in Builds |-> NoDevice]
    /\ pc = [b \in Builds |-> "idle"]
    /\ op = [b \in Builds |-> "none"]
    /\ args = [b \in Builds |-> NoArgs]
    /\ result = [b \in Builds |-> "none"]
    /\ probes = [b \in Builds |-> 0]
    /\ log = [b \in Builds |-> <<>>]
    /\ stage = [b \in Builds |-> 0]
    /\ iso = [b \in Builds |-> NoIso]
    /\ libs = NotCalled /\ toolchain = NotCalled /\ deps = NotCalled /\ fmt = NotCalled

\* The image size of the builds that start from a built image.
BuiltSize == 4096 * SECTOR_SIZE

\* No image file exists yet; the image of build 1 has any of the sizes.
InitBlank ==
    /\ InitCommon
    /\ calc = NoCalc
    /\ \E s \in ImageSizes : size_bytes = [b \in Builds |-> IF b = 1 THEN s ELSE BuiltSize]
    /\ fileLen = [b \in Builds |-> 0]
    /\ imgTable = [b \in Builds |-> NoTable]
    /\ imgFs = [b \in Builds |-> NoFsOnImage]

\* What create, create_partition_table(PartitionOffset, fat32) and
\* format_partition(fat32, PartitionOffset) leave on an image of BuiltSize bytes.
BuiltTable(p) ==
    LET total == SizeSectors(BuiltSize, SECTOR_SIZE) IN
    IF p = "darwin"
       THEN [kind |-> "gpt", start |-> PartitionOffset, last |-> total - 34,
             boot |-> FALSE]
       ELSE [kind |-> "msdos", start |-> PartitionOffset, last |-> total - 1,
             boot |-> TRUE]

BuiltFs(p) ==
    [kind |-> <<"fat", "32">>, start |-> PartitionOffset * SECTOR_SIZE,
     fat_size |-> "32",
     reserved |-> IF p = "darwin" THEN 0 ELSE FatReserved(<<"fat", "32">>, 0)]

\* Every image is partitioned and formatted, ready to be mounted.
InitBuilt ==
    /\ InitCommon
    /\ calc = NoCalc
    /\ size_bytes = [b \in Builds |-> BuiltSize]
    /\ fileLen = [b \in Builds |-> SizeSectors(BuiltSize, SECTOR_SIZE) * SECTOR_SIZE]
    /\ imgTable = [b \in Builds |-> BuiltTable(platform)]
    /\ imgFs = [b \in Builds |-> BuiltFs(platform)]

\* The steps inside a running operation.
ImageStep(b) ==
    \/ parted_mklabel(b) \/ parted_mkpart(b) \/ parted_boot(b)
    \/ sgdisk_zap(b) \/ sgdisk_o(b) \/ sgdisk_n(b)
    \/ mkfs_fat(b) \/ mkfs_ext2(b)
    \/ format_attach(b) \/ format_newfs(b) \/ format_detach(b)

DeviceStep(b) ==
    \/ mount_attach(b) \/ mount_partprobe(b)
    \/ wait_for_partition_probe(b) \/ wait_for_partition_exhausted(b)
    \/ mount_write_marker(b) \/ mount_mount(b)
    \/ unmount_umount(b) \/ unmount_read(b) \/ unmount_detach(b) \/ unmount_remove(b)
    \/ install_grub_mkdir(b) \/ install_grub_run(b)

\* --- Spec: one built image; the caller may call mount, install_grub and
\* unmount in any order and with any directory.
Init == InitBuilt

Next ==
    \E b \in {1} :
        \/ \E d \in MountDirs : mount(b, d)
        \/ \E a \in MountDirs \cup {NoDir} : unmount(b, a)
        \/ \E d \in MountDirs : install_grub(b, d)
        \/ DeviceStep(b)

Spec == Init /\ [][Next]_vars

\* --- SpecImage: one image; the caller may call create,
\* create_partition_table and format_partition in any order.
NextImage ==
    \E b \in {1} :
        \/ create(b)
        \/ \E o \in Offsets, f \in FsNames : create_partition_table(b, o, f)
        \/ \E f \in FsNames, o \in Offsets, r \in Reserved, l \in BOOLEAN :
               format_partition(b, f, o, r, l)
        \/ ImageStep(b)

SpecImage == InitBlank /\ [][NextImage]_vars

\* --- SpecBuild: one image build whose caller follows the pipeline: each
\* stage is called once, after the stage before it returned normally (the
\* bootloader stage may be left out), and nothing is called after a failure.
InOrder(b, o) ==
    /\ result[b] \in {"none", "ok"}
    /\ \/ stage[b] = StageOf(o) - 1
       \/ o = "unmount" /\ stage[b] = StageOf("mount")

NextBuild ==
    \E b \in {1} :
        \/ InOrder(b, "create") /\ create(b)
        \/ /\ InOrder(b, "create_partition_table")
           /\ \E o \in Offsets, f \in FsNames : create_partition_table(b, o, f)
        \/ /\ InOrder(b, "format_partition")
           /\ \E f \in FsNames, o \in Offsets, r \in Reserved, l \in BOOLEAN :
                  format_partition(b, f, o, r, l)
        \/ InOrder(b, "mount") /\ \E d \in MountDirs : mount(b, d)
        \/ InOrder(b, "install_grub") /\ install_grub(b, self_mount_dir[b])
        \/ InOrder(b, "unmount") /\ unmount(b, NoDir)
        \/ ImageStep(b)
        \/ DeviceStep(b)

SpecBuild == InitBlank /\ [][NextBuild]_vars

\* --- SpecConcurrent: two builds on distinct built images run the mounted
\* part of the pipeline (mount, install_grub, unmount) side by side; each
\* caller passes the mount directory of its choice.
MountedStage(b, o) ==
    /\ result[b] \in {"none", "ok"}
    /\ CASE o = "mount"        -> stage[b] = 0
         [] o = "install_grub" -> stage[b] = StageOf("mount")
         [] OTHER              -> stage[b] \in {StageOf("mount"), StageOf("install_grub")}

NextConcurrent ==
    \E b \in Builds :
        \/ MountedStage(b, "mount") /\ \E d \in MountDirs : mount(b, d)
        \/ MountedStage(b, "install_grub") /\ install_grub(b, self_mount_dir[b])
        \/ MountedStage(b, "unmount") /\ unmount(b, NoDir)
        \/ DeviceStep(b)

SpecConcurrent == InitBuilt /\ [][NextConcurrent]_vars

\* --- SpecSize: DiskImage objects are constructed with any size and sector
\* size.
SizeInputs == ((1..MaxBytes) \X (1..MaxSector)) \cup {<<1048576, SECTOR_SIZE>>}

\* DiskImage.__init__(image_path, size_bytes, sector_size), line 73.
DiskImage_init(bytes, sector_size) ==
    /\ calc' = [fn |-> "size_sectors", arg |-> <<bytes, sector_size>>,
                out |-> SizeSectors(bytes, sector_size), raised |-> "none"]
    /\ UNCHANGED <<platform, iso, scriptVars, size_bytes, hostVars, imageVars, selfVars,
                   pc, op, args, result, probes, log, stage>>

InitSize == InitBlank /\ platform = "linux" /\ size_bytes[1] = BuiltSize

NextSize == \E a \in SizeInputs : DiskImage_init(a[1], a[2])

SpecSize == InitSize /\ [][NextSize]_vars

\* --------------------------------------------------------------- ISO target
\* The ISO packaging of the boot installer: a boot image is generated from the
\* staged boot/grub/grub.cfg if there is one, then the staging tree is
\* packaged by the ISO-mastering tool.
build_iso(b, grub_cfg) ==
    /\ Enter(b, "build_iso", NoArgs, "iso_boot_image")
    /\ iso' = [iso EXCEPT ![b] = [NoIso EXCEPT !.grub_cfg = grub_cfg]]
    /\ UNCHANGED <<platform, calc, scriptVars, size_bytes, hostVars, imageVars, selfVars>>

\* The boot-image step failing the build when the staging tree has no
\* grub.cfg.
iso_boot_image_strict(b) ==
    /\ pc[b] = "iso_boot_image"
    /\ UNCHANGED <<platform, calc, scriptVars, size_bytes, hostVars, imageVars, selfVars,
                   op, args, probes>>
    /\ IF iso[b].grub_cfg
          THEN \/ /\ iso' = [iso EXCEPT ![b].boot_image = TRUE]
                  /\ Ran(b, "grub-mkstandalone", TRUE, NoDevice, NoDir)
                  /\ Goto(b, "iso_package")
               \/ /\ CommandFails(b, "grub-mkstandalone", NoDevice, NoDir)
                  /\ UNCHANGED iso
          ELSE /\ Return(b, "FileNotFoundError")
               /\ UNCHANGED <<iso, log>>

\* The boot image: a standalone bootloader image embedding the staged
\* grub.cfg; without a grub.cfg the step is skipped with a warning.
iso_boot_image(b) ==
    /\ pc[b] = "iso_boot_image"
    /\ UNCHANGED <<platform, calc, scriptVars, size_bytes, hostVars, imageVars, selfVars,
                   op, args, probes>>
    /\ IF iso[b].grub_cfg
          THEN \/ /\ iso' = [iso EXCEPT ![b].boot_image = TRUE]
                  /\ Ran(b, "grub-mkstandalone", TRUE, NoDevice, NoDir)
                  /\ Goto(b, "iso_package")
               \/ /\ CommandFails(b, "grub-mkstandalone", NoDevice, NoDir)
                  /\ UNCHANGED iso
          ELSE /\ iso' = [iso EXCEPT ![b].warned = TRUE]
               /\ Goto(b, "iso_package")
               /\ UNCHANGED log

\* The ISO-mastering tool (Rock Ridge, Joliet, volume label), with the
\* El-Torito boot parameters when a boot image was produced.
iso_package(b) ==
    /\ pc[b] = "iso_package"
    /\ UNCHANGED <<platform, calc, scriptVars, size_bytes, hostVars, imageVars, selfVars,
                   op, args, probes>>
    /\ LET cmd == IF iso[b].boot_image THEN "xorriso -eltorito-boot" ELSE "xorriso"
       IN  \/ /\ iso' = [iso EXCEPT ![b].image =
                             IF iso[b].boot_image THEN "bootable" ELSE "plain"]
              /\ Ran(b, cmd, TRUE, NoDevice, NoDir)
              /\ Return(b, "ok")
           \/ /\ CommandFails(b, cmd, NoDevice, NoDir)
              /\ UNCHANGED iso

\* --- SpecIso: two ISO targets are built, each from a staging tree with or
\* without a grub.cfg.
InitIso == InitBlank /\ size_bytes[1] = BuiltSize

NextIso ==
    \E b \in Builds :
        \/ \E c \in BOOLEAN : build_iso(b, c)
        \/ iso_boot_image(b)
        \/ iso_package(b)

SpecIso == InitIso /\ [][NextIso]_vars

\* ----------------------------------------------------------- copy_c_library
\* Everything the scripts below leave alone.
diskVars == <<platform, size_bytes, hostVars, imageVars, selfVars, calc, iso>>

\* Lines 281 and 286: libc.so, then the startup files in this order.
CrtFiles == <<"Scrt1.o", "crt1.o", "crti.o", "crtn.o">>
LibFiles == {"libc.so"} \cup {CrtFiles[i] : i \in 1..Len(CrtFiles)}
LdName   == "ld-musl.so.1"          \* arch_config['ld_musl_name']

\* The call returns at once, having run no command.
ReturnsAtOnce(b, o) ==
    /\ Idle(b)
    /\ op' = [op EXCEPT ![b] = o]
    /\ args' = [args EXCEPT ![b] = NoArgs]
    /\ result' = [result EXCEPT ![b] = "ok"]
    /\ log' = [log EXCEPT ![b] = <<>>]
    /\ probes' = [probes EXCEPT ![b] = 0]
    /\ UNCHANGED <<pc, stage>>

\* copy_c_library, lines 265-277: sysroot and sysroot_lib tell whether
\* <prefix>/<triple>/sysroot/usr and its lib directory exist, src is the set
\* of files in that lib directory, had_libc whether the image already holds
\* /lib/libc.so.
copy_c_library(b, sysroot, sysroot_lib, src, had_libc) ==
    /\ sysroot_lib => sysroot
    /\ src # {} => sysroot_lib
    /\ libs' = [called |-> TRUE, sysroot |-> sysroot, sysroot_lib |-> sysroot_lib,
                src |-> src, warned |-> ~sysroot, i |-> 1,
                target |-> [f \in LibFiles \cup {LdName} |->
                               IF f = "libc.so" /\ had_libc THEN "file" ELSE "none"]]
    /\ UNCHANGED <<diskVars, toolchain, deps, fmt>>
    /\ IF sysroot /\ sysroot_lib
          THEN Enter(b, "copy_c_library", NoArgs, "ccl_mkdir")
          ELSE ReturnsAtOnce(b, "copy_c_library")

\* Line 278: sudo mkdir -p <mount_dir>/lib.
ccl_mkdir(b) ==
    /\ pc[b] = "ccl_mkdir"
    /\ UNCHANGED <<diskVars, scriptVars, op, args, probes>>
    /\ \/ Ran(b, "mkdir", TRUE, NoDevice, NoDir) /\ Goto(b, "ccl_libc")
       \/ CommandFails(b, "mkdir", NoDevice, NoDir)

\* sudo cp <sysroot_lib>/<f> <mount_dir>/lib, run only if the file exists
\* (lines 282-283 and 288-289); then the caller goes on at `next`.
CopyIfExists(b, f, next, i) ==
    /\ UNCHANGED <<diskVars, toolchain, deps, fmt, op, args, probes>>
    /\ IF f \in libs.src
          THEN \/ /\ libs' = [libs EXCEPT !.target[f] = "file", !.i = i]
                  /\ Ran(b, "cp " \o f, TRUE, NoDevice, NoDir)
                  /\ Goto(b, next)
               \/ /\ CommandFails(b, "cp " \o f, NoDevice, NoDir)
                  /\ UNCHANGED libs
          ELSE /\ libs' = [libs EXCEPT !.i = i]
               /\ Goto(b, next)
               /\ UNCHANGED log

\* Lines 281-283: libc.so.
ccl_libc(b) ==
    /\ pc[b] = "ccl_libc"
    /\ CopyIfExists(b, "libc.so", "ccl_crt", 1)

\* Lines 286-289: the loop over the startup files.
ccl_crt(b) ==
    /\ pc[b] = "ccl_crt"
    /\ CopyIfExists(b, CrtFiles[libs.i],
                    IF libs.i = Len(CrtFiles) THEN "ccl_ld" ELSE "ccl_crt",
                    IF libs.i = Len(CrtFiles) THEN libs.i ELSE libs.i + 1)

\* Lines 292-295: sudo cp <mount_dir>/lib/libc.so <mount_dir>/lib/<ld_name>: a
\* copy, which needs its source on the image.
ccl_ld(b) ==
    /\ pc[b] = "ccl_ld"
    /\ UNCHANGED <<diskVars, toolchain, deps, fmt, op, args, probes>>
    /\ \/ /\ libs.target["libc.so"] # "none"
          /\ libs' = [libs EXCEPT !.target[LdName] = "file"]
          /\ Ran(b, "cp ld", TRUE, NoDevice, NoDir)
          /\ Return(b, "ok")
       \/ /\ CommandFails(b, "cp ld", NoDevice, NoDir)
          /\ UNCHANGED libs

\* --- SpecLibs: copy_c_library is called on a mounted image with any state
\* of the toolchain sysroot.
InitScript == InitBlank /\ platform = "linux" /\ size_bytes[1] = BuiltSize

NextLibs ==
    \E b \in {1} :
        \/ \E sysroot, sysroot_lib, had_libc \in BOOLEAN, src \in SUBSET LibFiles :
               copy_c_library(b, sysroot, sysroot_lib, src, had_libc)
        \/ ccl_mkdir(b) \/ ccl_libc(b) \/ ccl_crt(b) \/ ccl_ld(b)

SpecLibs == InitScript /\ [][NextLibs]_vars

\* --------------------------------------------------------- ToolchainBuilder
\* toolchain.py: VERSIONS (lines 30-34) in order, the four build stages of
\* build_all and the three checked commands of each stage.
Packages  == <<"binutils", "gcc", "musl">>
Stages    == <<"binutils", "gcc-stage1", "musl", "gcc-stage2">>
BuildCmds == <<"configure", "make", "make install">>

\* The file whose presence makes a stage skip (lines 179, 224, 269, 313):
\* <bin>/<target>-as, -gcc, <sysroot>/usr/lib/libc.so, <bin>/<target>-g++.
SkipFile(s) ==
    CASE s = "binutils" -> "as" [] s = "gcc-stage1" -> "gcc"
      [] s = "musl" -> "libc.so" [] OTHER -> "g++"

\* What the stage's `make install` leaves in the prefix. Both GCC stages are
\* configured with --enable-languages=c (lines 235 and 356) and so install
\* the C driver <target>-gcc and no <target>-g++.
Installed(s) ==
    CASE s = "binutils" -> {"as"} [] s = "gcc-stage1" -> {"gcc"}
      [] s = "musl" -> {"libc.so"} [] OTHER -> {"gcc"}

\* What download_sources (verb "download") and extract_sources ("extract")
\* leave in the prefix for a package: its tarball, its source directory.
Held(verb, pkg) == (IF verb = "download" THEN "tar " ELSE "src ") \o pkg

\* A prefix that already holds a complete C and C++ toolchain and its sources.
FullPrefix ==
    {"as", "gcc", "libc.so", "g++"}
        \cup {Held(verb, Packages[i]) : verb \in {"download", "extract"},
                                        i \in 1..Len(Packages)}

\* main() without flags (lines 463-496, build_all lines 370-390): build_all on the prefix. The first
\* call finds the prefix empty or already full, with a <target>-g++ that
\* runs or does not; a later call finds it as the call before left it.
toolchain_main(b, found, gxx_runs) ==
    /\ Enter(b, "build_all", NoArgs, "tc_setup")
    /\ toolchain' = [called |-> TRUE,
                     files |-> IF toolchain.called THEN toolchain.files ELSE found,
                     gxx_runs |-> IF toolchain.called THEN toolchain.gxx_runs ELSE gxx_runs,
                     prev |-> IF toolchain.called THEN toolchain.exit ELSE -1,
                     exit |-> -1, i |-> 1, step |-> 1]
    /\ UNCHANGED <<diskVars, libs, deps, fmt>>

\* What a step of a script's call leaves alone.
ScriptStep(b, here) ==
    /\ pc[b] = here
    /\ UNCHANGED <<diskVars, op, args, probes>>

\* The exception ends build_all; main() exits with 1 for CalledProcessError
\* (line 492) and for an exception it does not catch, 130 for
\* KeyboardInterrupt (line 495).
ToolchainRaises(b, cmd, e) ==
    /\ Ran(b, cmd, FALSE, NoDevice, NoDir)
    /\ Return(b, e)
    /\ toolchain' = [toolchain EXCEPT !.exit = IF e = "KeyboardInterrupt" THEN 130 ELSE 1]

\* Lines 125-130: setup_directories.
tc_setup(b) ==
    /\ ScriptStep(b, "tc_setup")
    /\ UNCHANGED <<libs, deps, fmt>>
    /\ Ran(b, "setup_directories", TRUE, NoDevice, NoDir)
    /\ Goto(b, "tc_download")
    /\ UNCHANGED toolchain

\* One round of a loop over the packages: the work is skipped if `have` is
\* in the prefix, else done (adding `have`) or failed with exception e.
PackageLoop(b, here, next, verb, e) ==
    /\ ScriptStep(b, here)
    /\ UNCHANGED <<libs, deps, fmt>>
    /\ LET pkg == Packages[toolchain.i]
           last == toolchain.i = Len(Packages)
           on == [toolchain EXCEPT !.i = IF last THEN 1 ELSE @ + 1]
       IN  IF Held(verb, pkg) \in toolchain.files
              THEN /\ toolchain' = on
                   /\ Goto(b, IF last THEN next ELSE here)
                   /\ UNCHANGED log
              ELSE \/ /\ toolchain' = [on EXCEPT !.files = @ \cup {Held(verb, pkg)}]
                      /\ Ran(b, verb \o " " \o pkg, TRUE, NoDevice, NoDir)
                      /\ Goto(b, IF last THEN next ELSE here)
                   \/ ToolchainRaises(b, verb \o " " \o pkg, e)

\* Lines 132-143: download_sources.
tc_download(b) ==
    /\ op[b] = "build_all"
    /\ PackageLoop(b, "tc_download", "tc_extract", "download", "URLError")

\* Lines 145-163: extract_sources.
tc_extract(b) ==
    /\ op[b] = "build_all"
    /\ PackageLoop(b, "tc_extract", "tc_stage", "extract", "TarError")

\* The head of a build stage: it returns at once if its file is installed
\* (for GCC stage 2: if <target>-g++ exists and `g++ --version` exits 0,
\* lines 313-321); after the last stage build_all returns.
tc_stage(b) ==
    /\ ScriptStep(b, "tc_stage")
    /\ UNCHANGED <<libs, deps, fmt>>
    /\ LET s == Stages[toolchain.i]
           last == toolchain.i = Len(Stages)
       IN  IF SkipFile(s) \in toolchain.files
              THEN IF s = "gcc-stage2"
                      THEN IF toolchain.gxx_runs
                              THEN /\ Ran(b, "g++ --version", TRUE, NoDevice, NoDir)
                                   /\ Return(b, "ok")
                                   /\ toolchain' = [toolchain EXCEPT !.exit = 0]
                              ELSE /\ Ran(b, "g++ --version", FALSE, NoDevice, NoDir)
                                   /\ Goto(b, "tc_guess")
                                   /\ UNCHANGED toolchain
                      ELSE /\ toolchain' = [toolchain EXCEPT !.i = @ + 1]
                           /\ Goto(b, "tc_stage")
                           /\ UNCHANGED log
              ELSE /\ Goto(b, IF s = "gcc-stage2" THEN "tc_guess" ELSE "tc_cmd")
                   /\ UNCHANGED <<toolchain, log>>

\* Lines 326-330: config.guess, run without check.
tc_guess(b) ==
    /\ ScriptStep(b, "tc_guess")
    /\ UNCHANGED <<libs, deps, fmt>>
    /\ \E ok \in BOOLEAN : Ran(b, "config.guess", ok, NoDevice, NoDir)
    /\ Goto(b, "tc_cmd")
    /\ UNCHANGED toolchain

\* A build stage whose commands run without check: a failing configure or
\* make is followed by the next command.
tc_cmd_unchecked(b) ==
    /\ ScriptStep(b, "tc_cmd")
    /\ UNCHANGED <<libs, deps, fmt>>
    /\ LET s == Stages[toolchain.i]
           cmd == s \o " " \o BuildCmds[toolchain.step]
           lastCmd == toolchain.step = Len(BuildCmds)
           lastStage == toolchain.i = Len(Stages)
       IN  \E ok \in BOOLEAN :
              /\ Ran(b, cmd, ok, NoDevice, NoDir)
              /\ toolchain' =
                    [toolchain EXCEPT
                       !.files = IF lastCmd /\ ok THEN @ \cup Installed(s) ELSE @,
                       !.step = IF lastCmd THEN 1 ELSE @ + 1,
                       !.i = IF lastCmd /\ ~lastStage THEN @ + 1 ELSE @,
                       !.exit = IF lastCmd /\ lastStage THEN 0 ELSE @]
              /\ IF lastCmd /\ lastStage THEN Return(b, "ok")
                  ELSE Goto(b, IF lastCmd THEN "tc_stage" ELSE "tc_cmd")

\* run_command (lines 58-66, check=True) on the configure, make and
\* `make install` of a stage: a non-zero exit raises CalledProcessError.
tc_cmd(b) ==
    /\ ScriptStep(b, "tc_cmd")
    /\ UNCHANGED <<libs, deps, fmt>>
    /\ LET s == Stages[toolchain.i]
           cmd == s \o " " \o BuildCmds[toolchain.step]
           lastCmd == toolchain.step = Len(BuildCmds)
           lastStage == toolchain.i = Len(Stages)
       IN  \/ /\ Ran(b, cmd, TRUE, NoDevice, NoDir)
              /\ toolchain' =
                    [toolchain EXCEPT
                       !.files = IF lastCmd THEN @ \cup Installed(s) ELSE @,
                       !.step = IF lastCmd THEN 1 ELSE @ + 1,
                       !.i = IF lastCmd /\ ~lastStage THEN @ + 1 ELSE @,
                       !.exit = IF lastCmd /\ lastStage THEN 0 ELSE @]
              /\ IF lastCmd /\ lastStage THEN Return(b, "ok")
                  ELSE Goto(b, IF lastCmd THEN "tc_stage" ELSE "tc_cmd")
           \/ ToolchainRaises(b, cmd, "CalledProcessError")

\* Ctrl-C while build_all runs.
tc_interrupt(b) ==
    /\ op[b] = "build_all" /\ ~Idle(b)
    /\ UNCHANGED <<diskVars, libs, deps, fmt, op, args, probes, log>>
    /\ Return(b, "KeyboardInterrupt")
    /\ toolchain' = [toolchain EXCEPT !.exit = 130]

\* --- SpecToolchain: main() is run, and run again, on one prefix and target.
NextToolchain ==
    \E b \in {1} :
        \/ \E found \in {{}, FullPrefix}, gxx_runs \in BOOLEAN :
              toolchain_main(b, found, gxx_runs)
        \/ tc_setup(b) \/ tc_download(b) \/ tc_extract(b)
        \/ tc_stage(b) \/ tc_guess(b) \/ tc_cmd(b)
        \/ tc_interrupt(b)

SpecToolchain == InitScript /\ [][NextToolchain]_vars

\* ------------------------------------------------------ install_dependencies
\* dependencies.py: the keys of DEPENDENCIES (lines 17-137) and those whose
\* update_cmd is not None.
Distros == {"debian", "fedora", "arch", "suse", "alpine"}
HasUpdate(d) == d \in {"debian", "arch", "alpine"}

\* Exit codes of a package manager.
ExitCodes == {0, 1, 2, 100, 127}

\* run_cmd's command line (lines 195-196): sudo is prefixed if use_sudo is
\* set and the caller is not root.
PkgCmd(d, verb, sudo) == (IF sudo THEN "sudo " ELSE "") \o d \o " " \o verb

\* Lines 186-192: an unknown distribution returns 1.
install_dependencies(b, distro, dry_run, sudo) ==
    /\ deps' = [called |-> TRUE, distro |-> distro, dry_run |-> dry_run,
                sudo |-> sudo, ran |-> <<>>,
                out |-> IF distro \in Distros THEN -1 ELSE 1]
    /\ UNCHANGED <<diskVars, libs, toolchain, fmt>>
    /\ IF distro \in Distros
          THEN Enter(b, "install_dependencies", NoArgs,
                     IF HasUpdate(distro) THEN "dep_update" ELSE "dep_install")
          ELSE ReturnsAtOnce(b, "install_dependencies")

\* run_cmd (lines 194-201): with dry_run the command is printed and 0 is the
\* result; else subprocess.call runs it and gives its exit code.
run_cmd(b, cmd, code) ==
    IF deps.dry_run
       THEN UNCHANGED log
       ELSE Ran(b, cmd, code = 0, NoDevice, NoDir)

\* The commands run_cmd has executed, with their exit codes.
run_cmd_ran(cmd, code) ==
    IF deps.dry_run THEN deps.ran ELSE Append(deps.ran, [cmd |-> cmd, code |-> code])

\* The update step with its result never looked at.
dep_update_ignored(b) ==
    /\ ScriptStep(b, "dep_update")
    /\ UNCHANGED <<libs, toolchain, fmt>>
    /\ \E code \in ExitCodes :
          LET cmd == PkgCmd(deps.distro, "update", deps.sudo)
          IN  /\ run_cmd(b, cmd, code)
              /\ deps' = [deps EXCEPT !.ran = run_cmd_ran(cmd, code)]
              /\ Goto(b, "dep_install")

\* Lines 203-207: the update command; a non-zero result is returned.
dep_update(b) ==
    /\ ScriptStep(b, "dep_update")
    /\ UNCHANGED <<libs, toolchain, fmt>>
    /\ \E code \in ExitCodes :
          LET cmd == PkgCmd(deps.distro, "update", deps.sudo)
              r == IF deps.dry_run THEN 0 ELSE code
          IN  /\ run_cmd(b, cmd, code)
              /\ IF r # 0 /\ ~deps.dry_run
                    THEN /\ deps' = [deps EXCEPT !.ran = run_cmd_ran(cmd, code), !.out = r]
                         /\ Return(b, "ok")
                    ELSE /\ deps' = [deps EXCEPT !.ran = run_cmd_ran(cmd, code)]
                         /\ Goto(b, "dep_install")

\* Lines 209-213: the install command; its result is returned.
dep_install(b) ==
    /\ ScriptStep(b, "dep_install")
    /\ UNCHANGED <<libs, toolchain, fmt>>
    /\ \E code \in ExitCodes :
          LET cmd == PkgCmd(deps.distro, "install", deps.sudo)
          IN  /\ run_cmd(b, cmd, code)
              /\ deps' = [deps EXCEPT !.ran = run_cmd_ran(cmd, code),
                                      !.out = IF deps.dry_run THEN 0 ELSE code]
              /\ Return(b, "ok")

\* --- SpecDeps: install_dependencies is called with any name and flags.
NextDeps ==
    \E b \in {1} :
        \/ \E distro \in Distros \cup {"gentoo"}, dry_run \in BOOLEAN, sudo \in BOOLEAN :
              install_dependencies(b, distro, dry_run, sudo)
        \/ dep_update(b)
        \/ dep_install(b)

SpecDeps == InitScript /\ [][NextDeps]_vars

\* -------------------------------------------------------------- format_files
\* Source files find_source_files may list.
SourceFiles == {"a.c", "b.h", "c.cpp"}
\* Lines 65-70: the formatter's flags.
FormatFlags(check_only) == IF check_only THEN "--dry-run --Werror" ELSE "-i"

\* Lines 61-63: an empty list returns 0.
format_files(b, files, check_only) ==
    /\ fmt' = [called |-> TRUE, files |-> files, check_only |-> check_only,
               i |-> 1, errors |-> 0, runs |-> <<>>, modified |-> {},
               out |-> IF files = <<>> THEN 0 ELSE -1]
    /\ UNCHANGED <<diskVars, libs, toolchain, deps>>
    /\ IF files = <<>>
          THEN ReturnsAtOnce(b, "format_files")
          ELSE Enter(b, "format_files", NoArgs, "fmt_run")

\* What the loop's round leaves in fmt: the run, the error count, and the
\* file rewritten if the formatter ran in place.
AfterRun(code) ==
    LET f == fmt.files[fmt.i]
        flags == FormatFlags(fmt.check_only)
    IN  [fmt EXCEPT !.runs = Append(@, [file |-> f, flags |-> flags, code |-> code]),
                    !.errors = IF code # 0 THEN @ + 1 ELSE @,
                    !.modified = IF flags = "-i" /\ code = 0 THEN @ \cup {f} ELSE @,
                    !.i = @ + 1]

\* The loop leaving at the first file the formatter fails on.
fmt_run_stops(b) ==
    /\ ScriptStep(b, "fmt_run")
    /\ UNCHANGED <<libs, toolchain, deps>>
    /\ \E code \in {0, 1} :
          LET after == AfterRun(code)
          IN  /\ Ran(b, "clang-format " \o fmt.files[fmt.i], code = 0, NoDevice, NoDir)
              /\ IF after.i > Len(fmt.files) \/ code # 0
                    THEN /\ fmt' = [after EXCEPT !.out = IF after.errors > 0 THEN 1 ELSE 0]
                         /\ Return(b, "ok")
                    ELSE /\ fmt' = after
                         /\ Goto(b, "fmt_run")

\* Lines 74-101: one round of the loop over the files; after the last file
\* 1 is returned if any file had an error, else 0.
fmt_run(b) ==
    /\ ScriptStep(b, "fmt_run")
    /\ UNCHANGED <<libs, toolchain, deps>>
    /\ \E code \in {0, 1} :
          LET after == AfterRun(code)
          IN  /\ Ran(b, "clang-format " \o fmt.files[fmt.i], code = 0, NoDevice, NoDir)
              /\ IF after.i > Len(fmt.files)
                    THEN /\ fmt' = [after EXCEPT !.out = IF after.errors > 0 THEN 1 ELSE 0]
                         /\ Return(b, "ok")
                    ELSE /\ fmt' = after
                         /\ Goto(b, "fmt_run")

\* --- SpecFormat: format_files is called on any list, in either mode.
NextFormat ==
    \E b \in {1} :
        \/ \E n \in 0..Cardinality(SourceFiles), check_only \in BOOLEAN :
              \E files \in [1..n -> SourceFiles] :
                  /\ \A i, j \in 1..n : i # j => files[i] # files[j]
                  /\ format_files(b, files, check_only)
        \/ fmt_run(b)

SpecFormat == InitScript /\ [][NextFormat]_vars

\* ---------------------------------------------------------------- ParseSize
\* A size string is a sequence of characters.
Digits      == {"1", "2", "4", "5", "6"}
NumberChars == Digits \cup {"."}                    \* the class [0-9\.]
SuffixChars == {"k", "K", "m", "M", "g", "G"}       \* [kmg] under re.IGNORECASE
Alphabet    == NumberChars \cup {"k", "K", "m", "M", "G", "x"}
SizeStrings == UNION {[1..n -> Alphabet] : n \in 0..MaxLen}

DigitValue(c) ==
    CASE c = "1" -> 1 [] c = "2" -> 2 [] c = "4" -> 4 [] c = "5" -> 5
      [] c = "6" -> 6 [] OTHER -> 0

\* str.lower() without effect.
Lower_none(c) == c

\* str.lower() on one character.
Lower(c) ==
    CASE c = "K" -> "k" [] c = "M" -> "m" [] c = "G" -> "g" [] OTHER -> c

RECURSIVE Pow(_, _)
Pow(x, n) == IF n = 0 THEN 1 ELSE x * Pow(x, n - 1)

\* Byte counts exceed the machine integers of the checker (2G = 2^31): a count
\* is kept as its base-1024 numeral, most significant limb first, without
\* leading zero limbs (<<0>> is zero).
RECURSIVE Strip(_)
Strip(n) == IF Len(n) > 1 /\ Head(n) = 0 THEN Strip(Tail(n)) ELSE n

RECURSIVE CarryFrom(_, _)
CarryFrom(n, c) ==
    IF n = <<>>
       THEN IF c = 0 THEN <<>> ELSE Append(CarryFrom(<<>>, c \div Base), c % Base)
       ELSE LET v == n[Len(n)] + c
            IN  Append(CarryFrom(SubSeq(n, 1, Len(n) - 1), v \div Base), v % Base)

NumOf(i) == Strip(CarryFrom(<<i>>, 0))

\* n * k for a small integer k.
MulSmall(n, k) == Strip(CarryFrom([i \in 1..Len(n) |-> n[i] * k], 0))

\* n * 1024^e.
TimesBase(n, e) == Strip(n \o [i \in 1..e |-> 0])

\* n // d for a small integer d: long division from the most significant limb.
RECURSIVE DivFrom(_, _, _)
DivFrom(n, d, rem) ==
    IF n = <<>> THEN <<>>
    ELSE LET v == rem * Base + Head(n)
         IN  <<v \div d>> \o DivFrom(Tail(n), d, v % d)

DivSmall(n, d) == Strip(DivFrom(n, d, 0))

\* The match of r'([0-9\.]+)' at the start of the string: the longest prefix
\* of number characters (0: no match).
RECURSIVE NumberPrefixLen(_)
NumberPrefixLen(s) ==
    IF s # <<>> /\ Head(s) \in NumberChars THEN 1 + NumberPrefixLen(Tail(s)) ELSE 0

\* Decimal(text): the digits of text as an integer and the count of digits
\* after the point; Decimal raises InvalidOperation unless text has a digit and
\* at most one point.
DigitsOf(text) == SelectSeq(text, LAMBDA c : c \in Digits)
PointsOf(text) == SelectSeq(text, LAMBDA c : c = ".")

DecimalValid(text) == Len(DigitsOf(text)) >= 1 /\ Len(PointsOf(text)) <= 1

RECURSIVE IntOf(_)
IntOf(ds) == IF ds = <<>> THEN 0
             ELSE 10 * IntOf(SubSeq(ds, 1, Len(ds) - 1)) + DigitValue(ds[Len(ds)])

FractionDigits(text) ==
    IF \E i \in 1..Len(text) : text[i] = "."
       THEN Len(text) - (CHOOSE i \in 1..Len(text) : text[i] = ".")
       ELSE 0

\* multipliers = {'k': 1024, 'm': 1024**2, 'g': 1024**3}, as a power of 1024;
\* any other multiplier leaves the result as it is.
SuffixPower(multiplier) ==
    CASE multiplier = "k" -> 1 [] multiplier = "m" -> 2 [] multiplier = "g" -> 3
      [] OTHER -> 0

\* ParseSize(size), utility.py lines 16-27: its return value or the exception
\* it raises.
ParseSize(size) ==
    LET n == NumberPrefixLen(size) IN
    IF n = 0
       THEN [out |-> <<>>, raised |-> "ValueError"]
    ELSE LET group1 == SubSeq(size, 1, n)
             group2 == IF n < Len(size) /\ size[n + 1] \in SuffixChars
                          THEN size[n + 1] ELSE ""
         IN  IF ~DecimalValid(group1)
                THEN [out |-> <<>>, raised |-> "InvalidOperation"]
                ELSE LET multiplier == Lower(group2)
                         product == TimesBase(NumOf(IntOf(DigitsOf(group1))),
                                             SuffixPower(multiplier))
                     IN  [out |-> DivSmall(product, Pow(10, FractionDigits(group1))),
                          raised |-> "none"]

\* --- SpecParse: ParseSize is called with any short string.
InitParse ==
    /\ InitCommon /\ platform = "linux"
    /\ size_bytes = [b \in Builds |-> BuiltSize]
    /\ fileLen = [b \in Builds |-> 0]
    /\ imgTable = [b \in Builds |-> NoTable]
    /\ imgFs = [b \in Builds |-> NoFsOnImage]
    /\ calc \in {[fn |-> "ParseSize", arg |-> s, out |-> <<>>, raised |-> "pending"] :
                    s \in SizeStrings}

ParseSize_call ==
    /\ calc.fn = "ParseSize" /\ calc.raised = "pending"
    /\ calc' = [calc EXCEPT !.out = ParseSize(calc.arg).out,
                            !.raised = ParseSize(calc.arg).raised]
    /\ UNCHANGED <<platform, iso, scriptVars, size_bytes, hostVars, imageVars, selfVars,
                   pc, op, args, result, probes, log, stage>>

NextParse == ParseSize_call

SpecParse == InitParse /\ [][NextParse]_vars

\* ------------------------------------------------------------------ claims
\* The devices the current (or last) call of build b attached.
AttachedByCall(b) ==
    {log[b][k].dev : k \in {j \in 1..Len(log[b]) : log[b][j].cmd = "attach" /\ log[b][j].ok}}

\* C1: if mount() fails after the image has been attached as a block device,
\* the device is detached before mount() returns the error: no mount() that
\* raised leaves the device it attached and recorded in self._device still
\* attached.
C1_FailedMountDetaches ==
    \A b \in Builds :
        (/\ Idle(b) /\ op[b] = "mount" /\ result[b] \in Errors
         /\ self_device[b] \in AttachedByCall(b))
            => attached[self_device[b]] = 0

\* C3: if the umount command fails inside unmount() of a mounted image, the
\* device that image is attached to is detached before unmount() returns the
\* error.
C3_FailedUnmountDetaches ==
    \A b \in Builds :
        (/\ Idle(b) /\ op[b] = "unmount" /\ result[b] = "ErrorReturnCode"
         /\ Len(log[b]) = 1 /\ log[b][1].cmd = "umount"
         /\ self_device[b] # NoDevice
         /\ \E k \in 1..Len(mounts[args[b].dir]) :
                mounts[args[b].dir][k] = self_device[b])
            => attached[self_device[b]] = 0

\* What one step may do to a build that stands in the loop of
\* _wait_for_partition: probe and go round again, probe and return, or leave
\* with one of the exceptions in `raised` (RuntimeError only once every probe
\* has failed).
WaitStep(b, raised) ==
    (pc[b] = "mount_wait") =>
        /\ probes[b] <= MaxRetries /\ probes'[b] <= MaxRetries
        /\ \/ pc'[b] = "mount_wait"
              /\ probes'[b] \in {probes[b], probes[b] + 1}
           \/ pc'[b] = "mount_marker"
              /\ probes'[b] = probes[b] + 1
           \/ pc'[b] = "idle"
              /\ result'[b] \in raised
              /\ (result'[b] = "RuntimeError"
                    => (probes[b] = MaxRetries /\ probes'[b] = MaxRetries))
              /\ (result'[b] = "TimeoutExpired"
                    => probes'[b] = probes[b] + 1)

\* Once _wait_for_partition has returned, mount() probes no more.
NoProbeAfterSuccess(b) ==
    pc[b] \in {"mount_marker", "mount_mount"} => probes'[b] = probes[b]

\* C4: _wait_for_partition ends after at most max_retries probes; it
\* returns as soon as a probe succeeds, raises RuntimeError when all probes
\* failed, has no other outcome and never probes again after a success.
C4_WaitOnlyRuntimeError ==
    [][\A b \in Builds : WaitStep(b, {"RuntimeError"}) /\ NoProbeAfterSuccess(b)]_vars


\* C2: a successful unmount() that follows a successful mount() unmounts the
\* filesystem, then detaches exactly the device mount() attached, then deletes
\* the '<mount_dir>.device' marker file, in this order; when it returns nothing
\* is mounted on mount_dir, the device is free and the marker file is gone.
C2_UnmountTearsDown ==
    \A b \in Builds :
        LET d   == args[b].dir
            dev == self_device[b]
        IN  (op[b] = "unmount" /\ stage[b] >= StageOf("mount")) =>
              /\ pc[b] = "unmount_umount" =>
                    mounts[d] = <<dev>> /\ attached[dev] = b /\ marker[d] = dev
              /\ pc[b] \in {"unmount_read", "unmount_detach"} =>
                    mounts[d] = <<>> /\ attached[dev] = b /\ marker[d] = dev
              /\ pc[b] = "unmount_detach" => args[b].device = dev
              /\ pc[b] = "unmount_remove" =>
                    mounts[d] = <<>> /\ attached[dev] = 0 /\ marker[d] = dev
              /\ (Idle(b) /\ result[b] = "ok") =>
                    /\ mounts[d] = <<>> /\ attached[dev] = 0 /\ marker[d] = NoDevice
                    /\ log[b] = << [cmd |-> "umount", ok |-> TRUE, dev |-> dev, dir |-> d],
                                   [cmd |-> "detach", ok |-> TRUE, dev |-> dev, dir |-> NoDir] >>

\* unmount() has returned normally after a successful mount().
C2_Witness ==
    /\ Idle(1) /\ op[1] = "unmount" /\ result[1] = "ok"
    /\ stage[1] = StageOf("unmount") /\ self_device[1] # NoDevice

\* C8: every external command of an operation is invoked at most once per call,
\* and a non-zero exit aborts the operation (no further command runs but the
\* detach of format_partition's finally clause) and reaches the caller as an
\* error; only the partition-node probe is run again after a failure.
C8_CommandsOnceAndFatal ==
    \A b \in Builds :
        /\ \A j, k \in 1..Len(log[b]) : j # k => log[b][j].cmd # log[b][k].cmd
        /\ \A k \in 1..Len(log[b]) :
              ~log[b][k].ok =>
                 /\ \/ k = Len(log[b])
                    \/ /\ k + 1 = Len(log[b])
                       /\ log[b][k].cmd = "newfs_msdos"
                       /\ log[b][k + 1].cmd = "detach"
                 /\ Idle(b) => result[b] \in Errors
                 /\ ~Idle(b) => pc[b] = "format_detach"

\* A mount() whose probe was repeated after failing and whose mount command
\* then failed once and raised.
C8_Witness ==
    /\ Idle(1) /\ op[1] = "mount" /\ result[1] = "ErrorReturnCode"
    /\ probes[1] >= 2
    /\ log[1][Len(log[1])].cmd = "mount" /\ ~log[1][Len(log[1])].ok

\* C5: create_partition_table(offset, ...) on an existing image of
\* total_sectors sectors fails, without invoking any partitioning tool (and so
\* without changing the image), whenever offset >= total_sectors - 1.
C5_InsufficientSpaceRejected ==
    \A b \in Builds :
        (/\ Idle(b) /\ op[b] = "create_partition_table"
         /\ fileLen[b] > 0
         /\ args[b].offset >= TotalSectors(b) - 1)
            => (result[b] \in Errors /\ log[b] = <<>>)

\* C6: on Linux and on macOS a successful create_partition_table leaves an MBR
\* (msdos) partition table with one partition, flagged bootable, that starts at
\* the given offset sector and ends at the last sector of the image.
C6_OneBootableMbrPartition ==
    \A b \in Builds :
        (Idle(b) /\ op[b] = "create_partition_table" /\ result[b] = "ok")
            => /\ imgTable[b].kind = "msdos"
               /\ imgTable[b].boot
               /\ imgTable[b].start = args[b].offset
               /\ imgTable[b].last = TotalSectors(b) - 1

\* A step in which an operation of build b returns normally.
Completes(b) ==
    /\ result'[b] = "ok"
    /\ <<pc[b], op[b], result[b]>> # <<pc'[b], op'[b], result'[b]>>

\* C7: the stages of one image build run only in the order create,
\* create_partition_table, format_partition, mount, install_grub, unmount: an
\* operation returns normally only if the stage before it (for unmount: mount
\* or install_grub) was the last one completed, so a stage called early is
\* rejected and no completed stage is entered again.
C7_StagesInOrder ==
    [][\A b \in Builds :
          Completes(b) =>
             \/ StageOf(op'[b]) = stage[b] + 1
             \/ op'[b] = "unmount" /\ stage[b] = StageOf("mount")]_vars

\* C10: when the formatter rejects the volume label, and nothing else is wrong
\* with the call, format_partition still returns normally and the partition is
\* formatted.
C10_LabelRejectionTolerated ==
    \A b \in Builds :
        (/\ Idle(b) /\ op[b] = "format_partition"
         /\ ~args[b].label_ok
         /\ args[b].fs \in DOMAIN FS_CONFIG
         /\ fileLen[b] > 0 /\ args[b].offset < TotalSectors(b)
         /\ log[b] # <<>>)
            => (result[b] = "ok" /\ imgFs[b].kind = args[b].fs)

\* mount() has returned normally for build b and unmount() has not yet.
Mounted(b) ==
    /\ stage[b] \in {StageOf("mount"), StageOf("install_grub")}
    /\ op[b] \in {"mount", "install_grub"}

\* C9: two concurrent builds on distinct backing files never hold the same
\* device or the same mount directory (hence marker file) after mount(), and
\* the commands of one build's unmount() that succeed unmount and detach only
\* the device of that build.
C9_BuildsNeverCollide ==
    \A b1, b2 \in Builds :
        b1 # b2 =>
           /\ (Mounted(b1) /\ Mounted(b2)) =>
                 /\ self_device[b1] # self_device[b2]
                 /\ self_mount_dir[b1] # self_mount_dir[b2]
           /\ op[b1] = "unmount" =>
                 \A k \in 1..Len(log[b1]) :
                    log[b1][k].ok => log[b1][k].dev = self_device[b1]

\* The formatting commands that are handed a FAT bit-width (-F).
FatFormatters == {"mkfs.fat", "newfs_msdos"}

\* C11: create_partition_table and format_partition (and get_fs_config, which
\* the former calls) accept exactly the names fat12, fat16, fat32 and ext2: a
\* call with any other name, also one that begins with 'fat', raises an
\* unsupported-filesystem error (the ValueError of get_fs_config and of
\* format_partition, or the RuntimeError of the macOS branch) without running
\* any tool, a supported name never raises the ValueError, and the FAT width
\* handed to a formatter is one of 12, 16, 32 and is FS_CONFIG[fs]['fat_size'].
C11_OnlySupportedNames ==
    \A b \in Builds :
        /\ (/\ Idle(b) /\ op[b] \in {"create_partition_table", "format_partition"}
            /\ args[b].fs \notin DOMAIN FS_CONFIG)
               => (result[b] \in {"ValueError", "RuntimeError"} /\ log[b] = <<>>)
        /\ (/\ Idle(b) /\ op[b] \in {"create_partition_table", "format_partition"}
            /\ args[b].fs \in DOMAIN FS_CONFIG)
               => result[b] # "ValueError"
        /\ (/\ op[b] = "format_partition"
            /\ \E k \in 1..Len(log[b]) : log[b][k].cmd \in FatFormatters)
               => /\ args[b].fs \in DOMAIN FS_CONFIG
                  /\ args[b].fs[2] \in FatSizes
                  /\ args[b].fs[2] = FS_CONFIG[args[b].fs].fat_size

\* C12: on Linux a format_partition with reserved_sectors = R that formats a
\* FAT filesystem hands the formatter the reserved-sector count
\* R + FS_CONFIG[kind]['reserved_extra'], which is R + 1 for fat12 and fat16
\* and R + 2 for fat32: one sector more for fat32 than for fat12/fat16.
C12_FatReservedSectors ==
    \A b \in Builds :
        (/\ Idle(b) /\ op[b] = "format_partition" /\ result[b] = "ok"
         /\ platform = "linux" /\ StartsWithFat(args[b].fs))
            => /\ imgFs[b].reserved =
                     args[b].reserved + FS_CONFIG[args[b].fs].reserved_extra
               /\ imgFs[b].reserved =
                     args[b].reserved + (IF args[b].fs = <<"fat", "32">> THEN 2 ELSE 1)

\* A fat32 filesystem formatted on Linux with one reserved sector asked for.
C12_Witness ==
    /\ Idle(1) /\ op[1] = "format_partition" /\ result[1] = "ok"
    /\ platform = "linux"
    /\ args[1].fs = <<"fat", "32">> /\ args[1].reserved = 1
    /\ imgFs[1].reserved = 3

\* C13: for size_bytes > 0 and sector_size > 0, size_sectors is the ceiling of
\* size_bytes / sector_size: the least n with n * sector_size >= size_bytes;
\* 1048576 bytes in 512-byte sectors are 2048 sectors.
C13_SizeSectorsIsCeiling ==
    calc.fn = "size_sectors" =>
        LET bytes == calc.arg[1]
            sector_size == calc.arg[2]
            n == calc.out
        IN  /\ n * sector_size >= bytes
            /\ \A k \in 0..(n - 1) : k * sector_size < bytes
            /\ (calc.arg = <<1048576, 512>>) => n = 2048

\* A size that is no multiple of the sector size: 7 bytes in 4-byte sectors.
C13_Witness ==
    calc.fn = "size_sectors" /\ calc.arg = <<7, 4>> /\ calc.out = 2

\* C14: after create() the file at image_path is exactly
\* size_sectors * sector_size bytes long and all zero (no partition table, no
\* filesystem), whatever file was there before; that length is at least
\* size_bytes, less than one sector more, and size_bytes itself when size_bytes
\* is a multiple of the sector size.
C14_CreateWritesWholeSectors ==
    \A b \in Builds :
        (Idle(b) /\ op[b] = "create" /\ result[b] = "ok")
            => /\ fileLen[b] = size_sectors(b) * SECTOR_SIZE
               /\ imgTable[b] = NoTable /\ imgFs[b] = NoFsOnImage
               /\ fileLen[b] >= size_bytes[b]
               /\ fileLen[b] - size_bytes[b] < SECTOR_SIZE
               /\ (size_bytes[b] % SECTOR_SIZE = 0) => fileLen[b] = size_bytes[b]

\* create() has run for a size that is no whole number of sectors and the
\* file is one byte short of a sector longer than size_bytes.
C14_Witness ==
    /\ Idle(1) /\ op[1] = "create" /\ result[1] = "ok"
    /\ size_bytes[1] % SECTOR_SIZE # 0
    /\ fileLen[1] = size_bytes[1] + SECTOR_SIZE - 1

\* The grammar <number>[k|m|g], letters in either case: a number is a run of
\* digits with at most one decimal point in it.
IsNumber(text) ==
    /\ Len(text) >= 1
    /\ \A i \in 1..Len(text) : text[i] \in Digits \cup {"."}
    /\ \E i \in 1..Len(text) : text[i] \in Digits
    /\ \A i, j \in 1..Len(text) : (text[i] = "." /\ text[j] = ".") => i = j

IsSuffix(c) == c \in {"k", "K", "m", "M", "g", "G"}

MatchesGrammar(s) ==
    \/ IsNumber(s)
    \/ Len(s) >= 2 /\ IsNumber(SubSeq(s, 1, Len(s) - 1)) /\ IsSuffix(s[Len(s)])

\* a < b for numerals without leading zero limbs.
Less(a, b) ==
    \/ Len(a) < Len(b)
    \/ /\ Len(a) = Len(b)
       /\ \E i \in 1..Len(a) : a[i] < b[i] /\ \A j \in 1..(i - 1) : a[j] = b[j]

\* The power of 1024 a suffix letter stands for.
PowerOfSuffix(c) ==
    IF c \in {"k", "K"} THEN 1 ELSE IF c \in {"m", "M"} THEN 2 ELSE 3

\* The same letter in the other case.
OtherCase(c) ==
    CASE c = "k" -> "K" [] c = "K" -> "k" [] c = "m" -> "M" [] c = "M" -> "m"
      [] c = "g" -> "G" [] c = "G" -> "g" [] OTHER -> c

\* C15: for a string <number>[k|m|g] ParseSize returns the number times 1,
\* 1024, 1024^2 or 1024^3, exactly, truncated to an integer N: N * 10^f <=
\* digits * 1024^e < (N + 1) * 10^f for a number of f fraction digits;
\* '64' -> 64, '1k' -> 1024, '1.5M' -> 1572864, '2G' -> 2147483648, and
\* either case of the suffix letter gives the same result.
C15_ParseSizeValue ==
    (calc.fn = "ParseSize" /\ calc.raised # "pending" /\ MatchesGrammar(calc.arg)) =>
        LET s == calc.arg
            suffixed == IsSuffix(s[Len(s)])
            number == IF suffixed THEN SubSeq(s, 1, Len(s) - 1) ELSE s
            e == IF suffixed THEN PowerOfSuffix(s[Len(s)]) ELSE 0
            scale == Pow(10, FractionDigits(number))
            exact == TimesBase(NumOf(IntOf(DigitsOf(number))), e)
            N == calc.out
            N1 == Strip(CarryFrom(N, 1))
        IN  /\ calc.raised = "none"
            /\ ~Less(exact, MulSmall(N, scale))
            /\ Less(exact, MulSmall(N1, scale))
            /\ (s = <<"6", "4">>) => N = <<64>>
            /\ (s = <<"1", "k">>) => N = <<1, 0>>
            /\ (s = <<"1", ".", "5", "M">>) => N = <<1, 512, 0>>
            /\ (s = <<"2", "G">>) => N = <<2, 0, 0, 0>>
            /\ suffixed => N = ParseSize(Append(number, OtherCase(s[Len(s)]))).out

\* '1.5M' has been parsed to 1572864 = 1 * 1024^2 + 512 * 1024.
C15_Witness ==
    /\ calc.fn = "ParseSize" /\ calc.arg = <<"1", ".", "5", "M">>
    /\ calc.raised = "none" /\ calc.out = <<1, 512, 0>>

\* C16: for every string that is not, as a whole, <number>[k|m|g] (the empty
\* string, characters after a valid prefix, an unknown suffix, more than one
\* decimal point) ParseSize fails as for an invalid size and returns no byte
\* count. The failure is the ValueError of line 18; the InvalidOperation that
\* Decimal raises for a malformed number is let pass as such a failure here.
C16_InvalidSizeRejected ==
    (calc.fn = "ParseSize" /\ calc.raised # "pending" /\ ~MatchesGrammar(calc.arg))
        => (calc.raised \in {"ValueError", "InvalidOperation"} /\ calc.out = <<>>)

\* C17: a format_partition that formats ext2 hands the formatter the byte
\* offset offset * sector_size for the partition offset it was given in
\* sectors: the filesystem starts at that byte, not at byte 0 when the offset
\* is non-zero, and at the first byte of the partition when the offset is the
\* sector the partition starts at.
C17_Ext2OffsetInBytes ==
    \A b \in Builds :
        (/\ Idle(b) /\ op[b] = "format_partition" /\ result[b] = "ok"
         /\ args[b].fs = <<"ext", "2">>)
            => /\ imgFs[b].kind = <<"ext", "2">>
               /\ imgFs[b].start = args[b].offset * SECTOR_SIZE
               /\ (args[b].offset # 0) => imgFs[b].start # 0
               /\ (imgTable[b].start = args[b].offset)
                     => imgFs[b].start = imgTable[b].start * SECTOR_SIZE

\* An ext2 filesystem written at byte 2048 * 512 into the partition that
\* starts at sector 2048.
C17_Witness ==
    /\ Idle(1) /\ op[1] = "format_partition" /\ result[1] = "ok"
    /\ args[1].fs = <<"ext", "2">> /\ args[1].offset = PartitionOffset
    /\ imgTable[1].start = PartitionOffset
    /\ imgFs[1].start = 1048576

\* C18: an ISO build from a staging tree without boot/grub/grub.cfg does not
\* fail for that: the boot-image step is skipped (its command never runs), a
\* warning is emitted, the ISO-mastering tool still runs, once and without
\* El-Torito boot parameters, and unless that tool itself fails the build
\* returns normally with a non-bootable ISO.
C18_IsoWithoutGrubCfg ==
    \A b \in Builds :
        (op[b] = "build_iso" /\ ~iso[b].grub_cfg) =>
            /\ \A k \in 1..Len(log[b]) : log[b][k].cmd = "xorriso"
            /\ ~iso[b].boot_image
            /\ pc[b] = "iso_package" => iso[b].warned
            /\ Idle(b) =>
                  /\ iso[b].warned
                  /\ Len(log[b]) = 1
                  /\ result[b] = (IF log[b][1].ok THEN "ok" ELSE "ErrorReturnCode")
                  /\ result[b] = "ok" => iso[b].image = "plain"

\* A non-bootable ISO built, with a warning, from a tree without grub.cfg.
C18_Witness ==
    /\ Idle(1) /\ op[1] = "build_iso" /\ result[1] = "ok"
    /\ ~iso[1].grub_cfg /\ iso[1].warned /\ iso[1].image = "plain"

\* C19: whenever mount() has attached a device and has returned, normally or
\* with an error, and that device is still attached, the marker file
\* '<mount_dir>.device' exists and holds that device's path.
C19_AttachedDeviceHasMarker ==
    \A b \in Builds :
        (/\ Idle(b) /\ op[b] = "mount"
         /\ self_device[b] \in AttachedByCall(b)
         /\ attached[self_device[b]] # 0)
            => marker[self_mount_dir[b]] = self_device[b]

\* No device attached to the image of build b has its partition mounted.
NotMounted(b) == \A d \in Devices : attached[d] = b => ~IsMounted(d)

\* A step in which unmount() of build b, called without a directory of its
\* own (the directory is the recorded one), goes on to its delay and commands.
UnmountProceeds(b) ==
    /\ Idle(b) /\ pc'[b] = "unmount_umount"
    /\ args'[b].dir = self_mount_dir[b]

\* C20: unmount() without arguments does nothing (no delay, no command, no
\* error) when the image is not mounted, be it that mount() was never called
\* on the DiskImage or that an earlier unmount() succeeded; and when an
\* unmount() that ran its commands returns normally, the DiskImage records no
\* mount directory and no device any more.
C20_UnmountIdempotent ==
    [][\A b \in Builds :
          /\ (UnmountProceeds(b) /\ NotMounted(b)) =>
                 ~ \/ self_mount_dir[b] = NoDir
                   \/ op[b] = "unmount" /\ result[b] = "ok"
          /\ (op[b] = "unmount" /\ ~Idle(b) /\ pc'[b] = "idle" /\ result'[b] = "ok")
                 => (self_mount_dir'[b] = NoDir /\ self_device'[b] = NoDevice)]_vars

\* C21: when create_partition_table was called with its default offset (the
\* partition starts at sector 2048) and format_partition is then called with
\* its default offset and returns normally, the filesystem is written at the
\* first byte of that partition.
C21_DefaultOffsetsAgree ==
    \A b \in Builds :
        (/\ Idle(b) /\ op[b] = "format_partition" /\ result[b] = "ok"
         /\ args[b].offset = FormatOffset
         /\ HasPartition(imgTable[b]) /\ imgTable[b].start = PartitionOffset)
            => imgFs[b].start = PartitionOffset * SECTOR_SIZE

\* A step in which install_grub of build b invokes grub-install.
RunsGrubInstall(b) == pc[b] = "grub_install" /\ Len(log'[b]) = Len(log[b]) + 1

\* C22: install_grub(mount_dir) invokes grub-install only while the image is
\* mounted at mount_dir, on exactly the device the marker file records and
\* with the boot directory of mount_dir; called when the marker file is
\* absent it raises an error and runs no command.
C22_GrubOnlyWhileMounted ==
    [][\A b \in Builds :
          /\ RunsGrubInstall(b) =>
                LET ran == log'[b][Len(log'[b])] IN
                /\ ran.cmd = "grub-install"
                /\ ran.dev = marker[args[b].dir] /\ ran.dir = args[b].dir
                /\ ran.dev \in Devices
                /\ \E k \in 1..Len(mounts[args[b].dir]) :
                       mounts[args[b].dir][k] = ran.dev
          /\ (/\ Idle(b) /\ op'[b] = "install_grub"
              /\ marker[args'[b].dir] = NoDevice)
                 => /\ pc'[b] = "idle" /\ result'[b] \in Errors
                    /\ log'[b] = <<>>]_vars

\* C23: on macOS format_partition detaches the device it attached on every
\* path out of the call: once it has returned, each device its attach command
\* attached has been handed to a later detach command of the same call, and
\* is free again unless that detach command itself failed; and a non-FAT
\* filesystem makes create_partition_table and format_partition raise before
\* any tool runs or any device is attached.
C23_DarwinFormatDetaches ==
    \A b \in Builds :
        /\ (Idle(b) /\ platform = "darwin" /\ op[b] = "format_partition") =>
               \A k \in 1..Len(log[b]) :
                  (log[b][k].cmd = "attach" /\ log[b][k].ok) =>
                     \E j \in (k + 1)..Len(log[b]) :
                        /\ log[b][j].cmd = "detach"
                        /\ log[b][j].dev = log[b][k].dev
                        /\ log[b][j].ok => attached[log[b][k].dev] = 0
        /\ (/\ Idle(b) /\ platform = "darwin"
            /\ op[b] \in {"create_partition_table", "format_partition"}
            /\ ~StartsWithFat(args[b].fs))
               => (result[b] \in Errors /\ log[b] = <<>>)

\* The commands of the current call that copy a file out of the sysroot.
CopiedFrom(b) ==
    {f \in LibFiles : \E k \in 1..Len(log[b]) : log[b][k].cmd = "cp " \o f}

\* C24: copy_c_library returns without a command and without error when the
\* sysroot is absent; with the sysroot lib directory present it copies only
\* files that exist there and skips a missing one without error, libc.so
\* included: no command is run on a file that does not exist, so the call
\* fails only if a command on existing files fails; and the dynamic-linker
\* entry is a regular file, never a symbolic link.
C24_CopySkipsMissing ==
    (libs.called /\ op[1] = "copy_c_library") =>
        /\ ~libs.sysroot => (Idle(1) /\ result[1] = "ok" /\ log[1] = <<>>)
        /\ CopiedFrom(1) \subseteq libs.src
        /\ \A k \in 1..Len(log[1]) :
              log[1][k].cmd = "cp ld" => libs.target["libc.so"] # "none"
        /\ libs.target[LdName] \in {"none", "file"}

\* The steps of build_all in the order of its stages (setup_directories,
\* download_sources, extract_sources, build_binutils, build_gcc_stage1,
\* build_musl, build_gcc_stage2).
BuildOrder ==
    <<"setup_directories">>
        \o [i \in 1..Len(Packages) |-> "download " \o Packages[i]]
        \o [i \in 1..Len(Packages) |-> "extract " \o Packages[i]]
        \o [i \in 1..Len(BuildCmds) |-> Stages[1] \o " " \o BuildCmds[i]]
        \o [i \in 1..Len(BuildCmds) |-> Stages[2] \o " " \o BuildCmds[i]]
        \o [i \in 1..Len(BuildCmds) |-> Stages[3] \o " " \o BuildCmds[i]]
        \o <<"g++ --version", "config.guess">>
        \o [i \in 1..Len(BuildCmds) |-> Stages[4] \o " " \o BuildCmds[i]]

Rank(cmd) == CHOOSE i \in 1..Len(BuildOrder) : BuildOrder[i] = cmd

\* The configure, make and `make install` commands of the build stages.
ConfigureOrMake ==
    {Stages[s] \o " " \o BuildCmds[i] : s \in 1..Len(Stages), i \in 1..Len(BuildCmds)}

\* C25: build_all runs its steps in the fixed order of its stages; a
\* configure or make command that exits non-zero is the last thing the call
\* runs and main() exits with status 1; a keyboard interrupt gives 130.
C25_StagesInOrderAndFatal ==
    \A b \in {1} :
        (op[b] = "build_all" /\ toolchain.called) =>
            /\ \A i, j \in 1..Len(log[b]) :
                  i < j => Rank(log[b][i].cmd) < Rank(log[b][j].cmd)
            /\ \A i \in 1..Len(log[b]) :
                  (log[b][i].cmd \in ConfigureOrMake /\ ~log[b][i].ok) =>
                      /\ i = Len(log[b])
                      /\ Idle(b)
                      /\ result[b] = "CalledProcessError"
                      /\ toolchain.exit = 1
            /\ (Idle(b) /\ result[b] = "KeyboardInterrupt") => toolchain.exit = 130
            /\ (Idle(b) /\ result[b] = "ok") => toolchain.exit = 0

\* build_all has stopped with status 1 at a failed `make` of musl, after
\* binutils and GCC stage 1 were built in this call.
C25_Witness ==
    /\ op[1] = "build_all" /\ Idle(1) /\ toolchain.called
    /\ toolchain.exit = 1
    /\ Len(log[1]) = 15
    /\ log[1][15].cmd = "musl make" /\ ~log[1][15].ok
    /\ log[1][8].cmd = "binutils configure"

\* C26: a build_all that follows a fully successful build_all on the same
\* prefix downloads nothing, extracts nothing and runs no configure or make
\* (stated for a host on which an installed <target>-g++ runs).
C26_SecondBuildSkipsAll ==
    \A b \in {1} :
        (/\ op[b] = "build_all" /\ toolchain.called
         /\ toolchain.prev = 0 /\ toolchain.gxx_runs) =>
            \A i \in 1..Len(log[b]) :
                log[b][i].cmd \notin ConfigureOrMake
                    \cup {verb \o " " \o Packages[k] :
                            verb \in {"download", "extract"}, k \in 1..Len(Packages)}

\* C27: install_dependencies with dry_run runs no command and returns 0 for
\* every known distribution; without dry_run a failing update command is the
\* only command run and its exit code is returned, otherwise the install
\* command is run exactly once and its exit code is returned; an unknown
\* distribution returns 1 with nothing run.
C27_InstallDependencies ==
    \A b \in {1} :
        (op[b] = "install_dependencies" /\ deps.called) =>
            LET d == deps.distro
                ran == deps.ran
                upd == PkgCmd(d, "update", deps.sudo)
                ins == PkgCmd(d, "install", deps.sudo)
                installs == {i \in 1..Len(ran) : ran[i].cmd = ins}
            IN  /\ Len(ran) = Len(log[b])
                /\ (d \notin Distros) => Idle(b) /\ deps.out = 1 /\ ran = <<>>
                /\ (d \in Distros /\ deps.dry_run) =>
                      /\ ran = <<>>
                      /\ Idle(b) => deps.out = 0
                /\ (d \in Distros /\ ~deps.dry_run /\ Idle(b)) =>
                      IF HasUpdate(d) /\ ran[1].code # 0
                         THEN ran = <<[cmd |-> upd, code |-> deps.out]>>
                         ELSE /\ Cardinality(installs) = 1
                              /\ ran[Len(ran)] = [cmd |-> ins, code |-> deps.out]
                              /\ HasUpdate(d) => ran[1] = [cmd |-> upd, code |-> 0]
                              /\ Len(ran) = IF HasUpdate(d) THEN 2 ELSE 1

\* apt-get update exited 100 and install_dependencies returned 100 without
\* running the install command.
C27_Witness ==
    /\ op[1] = "install_dependencies" /\ Idle(1) /\ deps.called
    /\ deps.distro = "debian" /\ ~deps.dry_run
    /\ Len(deps.ran) = 1 /\ deps.ran[1].code = 100
    /\ deps.out = 100

\* C28: format_files runs the formatter exactly once on every file of the
\* list, in order and past failures, and returns 0 exactly when every run
\* exited 0 (the empty list included) and 1 otherwise; in check-only mode no
\* run has the in-place flag and no file is modified.
C28_FormatFiles ==
    \A b \in {1} :
        (op[b] = "format_files" /\ fmt.called) =>
            /\ Idle(b) =>
                  /\ Len(fmt.runs) = Len(fmt.files)
                  /\ \A i \in 1..Len(fmt.runs) : fmt.runs[i].file = fmt.files[i]
                  /\ fmt.out \in {0, 1}
                  /\ fmt.out = 0 <=> \A i \in 1..Len(fmt.runs) : fmt.runs[i].code = 0
            /\ fmt.check_only =>
                  /\ \A i \in 1..Len(fmt.runs) : fmt.runs[i].flags # "-i"
                  /\ fmt.modified = {}

\* Three files were formatted in place, the formatter failed on the second
\* and still ran on the third, and 1 was returned.
C28_Witness ==
    /\ op[1] = "format_files" /\ Idle(1) /\ fmt.called /\ ~fmt.check_only
    /\ Len(fmt.runs) = 3
    /\ fmt.runs[2].code = 1 /\ fmt.runs[3].code = 0
    /\ fmt.out = 1

====
